---- MODULE Spec2Model ----
(***************************************************************************)
(* Model of the metric/loss registry of src/scr/tasks/metrics.py.          *)
(*                                                                         *)
(* A tensor is a record [shape, data]: shape is the tuple of dimension     *)
(* sizes, data the elements in row-major order.  Class indices and label   *)
(* indices are 0-based as in the source.  A scalar float result is an      *)
(* exact fraction <<n, d>> in lowest terms with d > 0; NaN is <<0, 0>>.    *)
(* The outcome of a call is a record: the value returned, or the name of   *)
(* the exception raised.                                                   *)
(***************************************************************************)
EXTENDS Integers, Sequences, FiniteSets, TLC

VARIABLES
    pc,                 \* position of the module import / caller
    output_metric_fns,  \* metrics.py:233  name -> function
    loss_metric_fns,    \* metrics.py:274  name -> function
    metric_fns,         \* metrics.py:279  merged registry
    segmentation,       \* outcome of the import of the optional library
    fn,                 \* the metric function of the current call
    args,               \* the caller's arguments of the current call
    ret,                \* the value returned (or the exception raised)
    calls,              \* the invocations of the injected loss function made by the call
    tpc,                \* trainer_train.py: position of the training script
    cli,                \* trainer_train.py:63   args, the parsed command line
    best_acc,           \* trainer_train.py:93
    start_epoch,        \* trainer_train.py:94
    epoch,              \* trainer_train.py:573, 668  the loop variable
    val_acc,            \* trainer_train.py:579, 674
    model,              \* trainer_train.py:252  the weights and whether layers are frozen
    files,              \* the file system: path -> contents
    log,                \* the steps the running script has taken, in order
    exc,                \* the exception that ended the script
    runs                \* how many times the script has been started

\* the state of the training script
trainer == <<tpc, cli, best_acc, start_epoch, epoch, val_acc, model, files, log, exc, runs>>

\* the state of the metrics module and of its caller
metrics == <<pc, output_metric_fns, loss_metric_fns, metric_fns, segmentation, fn, args, ret,
             calls>>

vars == <<metrics, trainer>>

(***************************************************************************)
(* Bounds of the model.                                                    *)
(***************************************************************************)
MaxN == 3        \* rows of a classification batch
MaxC == 3        \* classes of a classification batch
MaxProbeC == 10  \* classes of the batches passed to registry entries
MaxElems == 6    \* elements of a logits tensor
MaxB == 2        \* sequences (series) of a regression batch
MaxT == 2        \* time-steps of a regression batch
MaxD == 2        \* channels of a regression batch
MaxOutElems == 4 \* elements of a regression output
SqrtScale == 100 \* square roots are kept to 1/SqrtScale
MaxM == 3        \* samples of a multi-label batch
MaxL == 2        \* labels of a multi-label batch
MaxMlElems == 4  \* elements of a multi-label logits tensor
ExpScale == 1000 \* exponentials are kept to 1/ExpScale
MaxRaw == 110    \* raw scale / degrees-of-freedom channels are integers >= -MaxRaw

(***************************************************************************)
(* trainer_train.py: the training script.  Strings are sequences of        *)
(* characters, so that two paths are equal exactly when they are the same  *)
(* string.                                                                 *)
(***************************************************************************)
MaxEpochs == 2   \* --epochs1 and --epochs2 are at most MaxEpochs
MaxLayers == 2   \* --n_layers is at most MaxLayers
MaxTotal == 2    \* elements scored by one eval() are at most MaxTotal
MaxRuns == 2     \* the script is started at most MaxRuns times
MaxCalls == 3    \* eval() is called at most MaxCalls times in a row

Digits == <<"0", "1", "2", "3", "4", "5", "6", "7", "8", "9">>

\* str(n) of a non-negative int
RECURSIVE str(_)
str(n) == IF n < 10 THEN <<Digits[n + 1]>> ELSE str(n \div 10) \o <<Digits[(n % 10) + 1]>>

\* --file_name keeps its default
FileNames == {<<"t", "e", "s", "t">>}

\* --lr keeps its default; str(args.lr)
LrStr == <<"0", ".", "0", "0", "3">>

\* the command lines the script is started with
CommandLines ==
    [resume : BOOLEAN, file_name : FileNames, n_layers : 1..MaxLayers,
     epochs1 : 0..MaxEpochs, epochs2 : 0..MaxEpochs]

NoCli == [resume |-> FALSE, file_name |-> <<"t", "e", "s", "t">>, n_layers |-> 1, epochs1 |-> 0, epochs2 |-> 0]

\* a name that has not been assigned yet
Unbound == -1

\* the value of a call that falls off the end of the function
ReturnsNone == -2

\* S4Model(...): freshly initialised weights, every layer trainable.  The
\* weights are identified by the number of train() passes that produced them.
S4Model == [weights |-> 0, frozen |-> FALSE]

\* the weights of a checkpoint that this script did not write
ForeignWeights == 9

\* is s a prefix of p
HasPrefix(p, s) == Len(p) >= Len(s) /\ SubSeq(p, 1, Len(s)) = s

\* os.path.isdir('checkpoint'), from the working directory '.'
isdir_checkpoint(fs) == \E p \in DOMAIN fs : HasPrefix(p, <<".", "/", "c", "h", "e", "c", "k", "p", "o", "i", "n", "t", "/">>)

\* the path read by the resume block
resume_path == <<".", "/", "c", "h", "e", "c", "k", "p", "o", "i", "n", "t", "/", "c", "k", "p", "t", ".", "p", "t", "h">>

\* the path written by eval()
checkpoint_path(a) ==
    <<".", "/", "c", "h", "e", "c", "k", "p", "o", "i", "n", "t", "/">> \o a.file_name \o <<"/", "c", "k", "p", "t", "_">> \o str(a.n_layers) \o <<".", "p", "t", "h">>

\* output_directory
output_directory(a) == <<".", ".", "/", "s", "4", "_", "r", "e", "s", "u", "l", "t", "s", "/">> \o a.file_name

\* the path of the phase-1 model
model_path(a) ==
    output_directory(a) \o <<"/", "m", "o", "d", "e", "l", "_">> \o str(a.n_layers) \o <<"_">> \o LrStr
        \o <<"-">> \o str(a.epochs1) \o <<".", "p", "t">>

\* the path of the final model
final_model_path(a) ==
    output_directory(a) \o <<"/", "b", "r", "a", "z", "i", "l", "_", "m", "o", "d", "e", "l", "_">> \o str(a.n_layers) \o <<"_">> \o LrStr
        \o <<"-">> \o str(a.epochs2) \o <<".", "p", "t">>

\* output_filename
ConfigName == <<"a", "r", "g", "p", "a", "r", "s", "e", "_", "c", "o", "n", "f", "i", "g", ".", "t", "x", "t">>

EvaluationName == <<"/", "b", "r", "a", "z", "i", "l", "_", "e", "v", "a", "l", "u", "a", "t", "i", "o", "n", "_", "m", "e", "t", "r", "i", "c", "s", "_">>

TrainingName == <<"/", "b", "r", "a", "z", "i", "l", "_", "t", "r", "a", "i", "n", "i", "n", "g", "_", "m", "e", "t", "r", "i", "c", "s", "_">>

\* the path of a csv file of metrics
metrics_path(a, name) ==
    output_directory(a) \o name \o str(a.n_layers) \o <<"_">> \o LrStr \o <<".", "c", "s", "v">>

\* torch.save(obj, path)
torch_save(fs, path, obj) == [p \in DOMAIN fs \cup {path} |-> IF p = path THEN obj ELSE fs[p]]

\* the contents of a saved state_dict
StateDict(m) == [model |-> m.weights, acc |-> Unbound, epoch |-> Unbound]

\* acc = 100.*correct/total, kept to whole percents
Accuracy(correct, total) == (100 * correct) \div total

\* eval() saving whenever the accuracy is at least the best one
eval_NotStrict(e, correct, total, checkpoint, a, m, best, fs) ==
    LET acc == Accuracy(correct, total)
        state == [model |-> m.weights, acc |-> acc, epoch |-> e]
    IN  IF checkpoint /\ acc >= best
        THEN [best_acc |-> acc, files |-> torch_save(fs, checkpoint_path(a), state),
              returned |-> acc, wrote |-> TRUE]
        ELSE [best_acc |-> best, files |-> fs,
              returned |-> IF checkpoint THEN acc ELSE ReturnsNone, wrote |-> FALSE]

\* eval(epoch, dataloader, checkpoint): the values of best_acc, the file
\* system and the returned value after the call
eval(e, correct, total, checkpoint, a, m, best, fs) ==
    LET acc == Accuracy(correct, total)
        state == [model |-> m.weights, acc |-> acc, epoch |-> e]
    IN  IF checkpoint /\ acc > best
        THEN [best_acc |-> acc, files |-> torch_save(fs, checkpoint_path(a), state),
              returned |-> acc, wrote |-> TRUE]
        ELSE [best_acc |-> best, files |-> fs,
              returned |-> IF checkpoint THEN acc ELSE ReturnsNone, wrote |-> FALSE]

\* the trainer is not running: the state of the script's variables in the
\* processes that only import the metrics module
TrainerIdle ==
    /\ tpc = "idle"
    /\ cli = NoCli
    /\ best_acc = 0
    /\ start_epoch = 0
    /\ epoch = Unbound
    /\ val_acc = Unbound
    /\ model = S4Model
    /\ files = <<>>
    /\ log = <<>>
    /\ exc = "none"
    /\ runs = 0

(***************************************************************************)
(* Float results as exact fractions.                                       *)
(***************************************************************************)
NaN == <<0, 0>>

RECURSIVE GCD(_, _)
GCD(a, b) == IF b = 0 THEN a ELSE GCD(b, a % b)

Abs(x) == IF x < 0 THEN -x ELSE x

\* n / d of two integer-valued floats: 0/0 is NaN, x/0 is +-inf (<<+-1, 0>>)
Frac(n, d) ==
    IF d = 0 THEN (IF n = 0 THEN NaN ELSE IF n > 0 THEN <<1, 0>> ELSE <<-1, 0>>)
    ELSE LET g == GCD(Abs(n), Abs(d))
             s == IF d < 0 THEN -1 ELSE 1
         IN  <<(s * n) \div g, (s * d) \div g>>

IsNaN(q) == q = NaN
IsFinite(q) == q[2] > 0

RECURSIVE SumSeq(_)
SumSeq(s) == IF s = <<>> THEN 0 ELSE s[1] + SumSeq(Tail(s))

RECURSIVE ProdSeq(_)
ProdSeq(s) == IF s = <<>> THEN 1 ELSE s[1] * ProdSeq(Tail(s))

Last(s) == s[Len(s)]
Front(s) == SubSeq(s, 1, Len(s) - 1)

(***************************************************************************)
(* Tensors.                                                                *)
(***************************************************************************)
Tensor(shape, data) == [shape |-> shape, data |-> data]

\* every tensor of a shape with elements in vals
Tensors(shape, vals) ==
    {Tensor(shape, d) : d \in [1..ProdSeq(shape) -> vals]}

\* torch.Tensor.numel
Numel(t) == Len(t.data)

\* t.view(-1, c)
View2(t, c) == Tensor(<<Numel(t) \div c, c>>, t.data)

\* t.view(-1)
View1(t) == Tensor(<<Numel(t)>>, t.data)

\* index (0-based) of the first maximal element of a non-empty sequence
ArgmaxSeq(s) ==
    CHOOSE i \in 0..(Len(s) - 1) :
        /\ \A j \in 1..Len(s) : s[j] <= s[i + 1]
        /\ \A j \in 1..i : s[j] < s[i + 1]

\* the g-th (1-based) group of c consecutive elements: a slice along the last axis
Group(t, c, g) == SubSeq(t.data, (g - 1) * c + 1, g * c)

\* t.argmax(dim=-1)
ArgmaxLast(t) ==
    LET c == Last(t.shape)
        n == Numel(t) \div c
    IN  Tensor(Front(t.shape), [g \in 1..n |-> ArgmaxSeq(Group(t, c, g))])

\* x.float().mean() of a 0/1 vector
MeanBool(b) == Frac(Cardinality({i \in DOMAIN b : b[i]}), Len(b))

(***************************************************************************)
(* Outcomes of a call.                                                     *)
(***************************************************************************)
Ok(q) == [exc |-> "", val |-> q, opaque |-> FALSE]
\* a scalar returned by a function whose arithmetic is not modelled
Opaque == [exc |-> "", val |-> NaN, opaque |-> TRUE]
Raise(e) == [exc |-> e, val |-> NaN, opaque |-> FALSE]
NoCall == [exc |-> "none", val |-> NaN, opaque |-> FALSE]

Returned(r) == r.exc = ""

\* broadcasting of two vectors of lengths n and m
CanBroadcast(n, m) == n = m \/ n = 1 \/ m = 1
BIndex(len, i) == IF len = 1 THEN 1 ELSE i
BLen(n, m) == IF n = 1 THEN m ELSE n

\* accuracy without the reduction of a one-hot-like target
accuracy_NoMixup(logits, y) ==
    LET lg == View2(logits, Last(logits.shape))
        y2 == View1(y).data
        pred == ArgmaxLast(lg).data
    IN  IF ~CanBroadcast(Len(pred), Len(y2))
        THEN Raise("RuntimeError")
        ELSE Ok(MeanBool([i \in 1..BLen(Len(pred), Len(y2)) |->
                     pred[BIndex(Len(pred), i)] = y2[BIndex(Len(y2), i)]]))

(***************************************************************************)
(* metrics.py:62  accuracy                                                 *)
(***************************************************************************)
accuracy(logits, y) ==
    LET lg == View2(logits, Last(logits.shape))
        y1 == IF Numel(y) > lg.shape[1] THEN ArgmaxLast(y) ELSE y
        y2 == View1(y1).data
        pred == ArgmaxLast(lg).data
    IN  IF ~CanBroadcast(Len(pred), Len(y2))
        THEN Raise("RuntimeError")     \* torch.eq cannot broadcast the two vectors
        ELSE Ok(MeanBool([i \in 1..BLen(Len(pred), Len(y2)) |->
                     pred[BIndex(Len(pred), i)] = y2[BIndex(Len(y2), i)]]))

(***************************************************************************)
(* torch.topk(row, k)[1]: the indices of the k largest elements.  The      *)
(* order among equal elements is not specified by the library; tb selects  *)
(* which of the outcomes the build produces.                               *)
(***************************************************************************)
TieBreaks == {"first", "last"}

Beats(row, i, j, tb) ==
    \/ row[i] > row[j]
    \/ row[i] = row[j] /\ (IF tb = "first" THEN i < j ELSE i > j)

\* top-k that returns one index too few
TopK_OneShort(row, k, tb) ==
    {j - 1 : j \in {j \in 1..Len(row) :
                      Cardinality({i \in 1..Len(row) : Beats(row, i, j, tb)}) < k - 1}}

TopK(row, k, tb) ==
    {j - 1 : j \in {j \in 1..Len(row) :
                      Cardinality({i \in 1..Len(row) : Beats(row, i, j, tb)}) < k}}

(***************************************************************************)
(* metrics.py:71  accuracy_at_k                                            *)
(***************************************************************************)
accuracy_at_k(logits, y, k, tb) ==
    LET lg == View2(logits, Last(logits.shape))
        y1 == IF Numel(y) > lg.shape[1] THEN ArgmaxLast(y) ELSE y
        y2 == View1(y1).data
        n == lg.shape[1]
    IN  IF k > lg.shape[2] THEN Raise("RuntimeError")     \* topk: k out of range
        ELSE IF ~CanBroadcast(n, Len(y2)) THEN Raise("RuntimeError")
        ELSE Ok(MeanBool([i \in 1..BLen(n, Len(y2)) |->
                 y2[BIndex(Len(y2), i)]
                     \in TopK(Group(lg, lg.shape[2], BIndex(n, i)), k, tb)]))

(***************************************************************************)
(* Element-wise operations with broadcasting.  Flat indices are 0-based.   *)
(***************************************************************************)
Max(a, b) == IF a >= b THEN a ELSE b

\* the coordinate along axis a (1-based) of flat index p in a shape
Coord(p, shape, a) ==
    (p \div ProdSeq(SubSeq(shape, a + 1, Len(shape)))) % shape[a]

\* a shape padded with leading 1s to rank r
Pad(shape, r) ==
    [i \in 1..r |-> IF i <= r - Len(shape) THEN 1 ELSE shape[i - (r - Len(shape))]]

Broadcastable(sa, sb) ==
    LET r == Max(Len(sa), Len(sb))
    IN  \A i \in 1..r :
            \/ Pad(sa, r)[i] = Pad(sb, r)[i]
            \/ Pad(sa, r)[i] = 1
            \/ Pad(sb, r)[i] = 1

BroadcastShape(sa, sb) ==
    LET r == Max(Len(sa), Len(sb))
    IN  [i \in 1..r |-> Max(Pad(sa, r)[i], Pad(sb, r)[i])]

\* the element of t that lands on flat index p of the broadcast shape
BGet(t, p, shape) ==
    LET r == Len(shape)
        ps == Pad(t.shape, r)
        at(i) == IF ps[i] = 1 THEN 0 ELSE Coord(p, shape, i)
        flat == SumSeq([i \in 1..r |->
                           at(i) * ProdSeq(SubSeq(ps, i + 1, r))])
    IN  IF t.shape = shape THEN t.data[p + 1] ELSE t.data[flat + 1]

Square(x) == x * x

\* reduction='none' of F.mse_loss (sq = TRUE) and F.l1_loss (sq = FALSE)
ElementLoss(a, b, sq) ==
    LET shape == BroadcastShape(a.shape, b.shape)
    IN  Tensor(shape, [p \in 1..ProdSeq(shape) |->
            LET d == BGet(a, p - 1, shape) - BGet(b, p - 1, shape)
            IN  IF sq THEN Square(d) ELSE Abs(d)])

\* F.mse_loss(a, b) and F.l1_loss(a, b): the mean of the element losses; the
\* mean of no element is NaN
MeanLoss(a, b, sq) ==
    IF ~Broadcastable(a.shape, b.shape) THEN Raise("RuntimeError")
    ELSE LET e == ElementLoss(a, b, sq)
         IN  Ok(Frac(SumSeq(e.data), Numel(e)))

\* t.squeeze(-1)
SqueezeLast(t) ==
    IF Len(t.shape) > 0 /\ Last(t.shape) = 1 THEN Tensor(Front(t.shape), t.data)
    ELSE t

None == <<-1>>

\* metrics.py:130-132: zeros_like(outs), then mask[i, :l, :] = 1 for every
\* (i, l) of enumerate(len_batch); indexing a tensor of rank < 3 with three
\* indices, or a row i that does not exist, raises IndexError
MaskIndexable(outs, len_batch) ==
    /\ Len(outs.shape) >= 3
    /\ Len(len_batch) <= outs.shape[1]

LengthMask(outs, len_batch) ==
    [p \in 1..Numel(outs) |->
        LET i == Coord(p - 1, outs.shape, 1)
            t == Coord(p - 1, outs.shape, 2)
        IN  i + 1 <= Len(len_batch) /\ t < len_batch[i + 1]]

\* torch.masked_select(t, mask): the elements of t under the mask, as a vector
RECURSIVE Selected(_, _, _)
Selected(data, mask, p) ==
    IF p > Len(mask) THEN <<>>
    ELSE (IF mask[p] THEN <<data[p]>> ELSE <<>>) \o Selected(data, mask, p + 1)

masked_select(t, shape, mask) ==
    LET picked == Selected([p \in 1..Len(mask) |-> BGet(t, p - 1, shape)], mask, 1)
    IN  Tensor(<<Len(picked)>>, picked)

\* the body shared by mse (sq = TRUE, metrics.py:119) and mae (sq = FALSE,
\* metrics.py:141)
MaskedLoss(outs, y, len_batch, sq) ==
    IF Len(y.shape) < Len(outs.shape) /\ Last(outs.shape) # 1
    THEN Raise("AssertionError")
    ELSE LET o == IF Len(y.shape) < Len(outs.shape) THEN SqueezeLast(outs) ELSE outs
         IN  IF len_batch = None THEN MeanLoss(o, y, sq)
             ELSE IF ~MaskIndexable(o, len_batch) THEN Raise("IndexError")
             ELSE IF ~Broadcastable(y.shape, o.shape)
                     \/ BroadcastShape(y.shape, o.shape) # o.shape
                  THEN Raise("RuntimeError")
             ELSE LET mask == LengthMask(o, len_batch)
                  IN  MeanLoss(masked_select(o, o.shape, mask),
                               masked_select(y, o.shape, mask), sq)

(***************************************************************************)
(* metrics.py:119  mse                                                     *)
(***************************************************************************)
mse(outs, y, len_batch) == MaskedLoss(outs, y, len_batch, TRUE)

(***************************************************************************)
(* metrics.py:141  mae                                                     *)
(***************************************************************************)
mae(outs, y, len_batch) == MaskedLoss(outs, y, len_batch, FALSE)

(***************************************************************************)
(* Square roots: torch.sqrt of a fraction, rounded down to 1/SqrtScale.    *)
(***************************************************************************)
RECURSIVE ISqrtIn(_, _, _)
\* the r with lo <= r < hi and r*r <= x < (r+1)*(r+1)
ISqrtIn(x, lo, hi) ==
    IF hi - lo <= 1 THEN lo
    ELSE LET mid == (lo + hi) \div 2
         IN  IF mid * mid <= x THEN ISqrtIn(x, mid, hi) ELSE ISqrtIn(x, lo, mid)

ISqrt(x) == ISqrtIn(x, 0, x + 1)

\* sqrt(q) in units of 1/SqrtScale, for a fraction q >= 0
SqrtUnits(q) == ISqrt((q[1] * SqrtScale * SqrtScale) \div q[2])

\* t.mean(1) of an integer tensor of rank >= 2: a vector of fractions, one per
\* position of the other axes
MeanAxis1(t) ==
    LET m == t.shape[2]
        inner == ProdSeq(SubSeq(t.shape, 3, Len(t.shape)))
        n == t.shape[1] * inner
    IN  [g \in 1..n |->
            LET i == (g - 1) \div inner
                j == (g - 1) % inner
            IN  Frac(SumSeq([k \in 1..m |->
                         t.data[i * m * inner + (k - 1) * inner + j + 1]]), m)]

\* the root of the mean of all squared errors
forecast_rmse_Global(outs, y, len_batch) ==
    IF ~Broadcastable(outs.shape, y.shape) THEN Raise("RuntimeError")
    ELSE LET e == ElementLoss(outs, y, TRUE)
         IN  Ok(Frac(SqrtUnits(Frac(SumSeq(e.data), Numel(e))), SqrtScale))

(***************************************************************************)
(* metrics.py:137  forecast_rmse                                           *)
(***************************************************************************)
forecast_rmse(outs, y, len_batch) ==
    IF ~Broadcastable(outs.shape, y.shape) THEN Raise("RuntimeError")
    ELSE LET e == ElementLoss(outs, y, TRUE)
         IN  IF Len(e.shape) < 2 THEN Raise("IndexError")
             ELSE LET per == MeanAxis1(e)
                      roots == [g \in 1..Len(per) |-> SqrtUnits(per[g])]
                  IN  Ok(Frac(SumSeq(roots), Len(roots) * SqrtScale))

(***************************************************************************)
(* float32 arithmetic of the confusion counts.  A count is an integer-     *)
(* valued float32 and is exact.  epsilon = 1e-7 (metrics.py:202, 209) is   *)
(* below the spacing of the float32 numbers from 1 on, so count + epsilon  *)
(* is rounded to count or to the next float32 above it.                    *)
(***************************************************************************)
EpsilonInv == 10000000      \* 1 / epsilon
F32Digits == 24             \* significand bits of torch.float32

RECURSIVE Pow2(_)
Pow2(n) == IF n = 0 THEN 1 ELSE 2 * Pow2(n - 1)

RECURSIVE FloorLog2(_)
FloorLog2(n) == IF n <= 1 THEN 0 ELSE 1 + FloorLog2(n \div 2)

Epsilon == <<1, EpsilonInv>>

\* a sum that leaves epsilon out
AddEpsilon_Dropped(n) == <<n, 1>>

\* float32(n + epsilon) for a count n: with u the spacing of the float32 numbers
\* at n, the sum is n + u when epsilon > u / 2 and n otherwise
AddEpsilon(n) ==
    IF n = 0 THEN Epsilon
    ELSE LET e == FloorLog2(n)
             uInv == Pow2(F32Digits - 1 - e)        \* 1 / u
         IN  IF 2 * uInv > EpsilonInv THEN Frac(n * uInv + 1, uInv) ELSE <<n, 1>>

\* float32(n / d) for a count n and a float32 d > 0, as the exact quotient;
\* a quotient within half a spacing of 1.0 (2^-25) is rounded to 1.0
Quotient(n, d) ==
    LET q == Frac(n * d[2], d[1])
        gap == q[2] - q[1]
    IN  IF ~IsFinite(q) THEN q
        ELSE IF gap >= 0 /\ gap < 64 /\ gap * Pow2(F32Digits + 1) <= q[2] THEN <<1, 1>>
        ELSE q

(***************************************************************************)
(* Tensor operations of the confusion-matrix metrics.                      *)
(***************************************************************************)
\* (t >= 0).float()
Threshold(t) == Tensor(t.shape, [p \in 1..Numel(t) |-> IF t.data[p] >= 0 THEN 1 ELSE 0])

\* 1 - t
OneMinus(t) == Tensor(t.shape, [p \in 1..Numel(t) |-> 1 - t.data[p]])

\* a * b with broadcasting
Mul(a, b) ==
    LET shape == BroadcastShape(a.shape, b.shape)
    IN  Tensor(shape, [p \in 1..ProdSeq(shape) |->
                          BGet(a, p - 1, shape) * BGet(b, p - 1, shape)])

\* t.sum(dim=0): of a vector a scalar (shape <<>>)
SumAxis0(t) ==
    LET inner == ProdSeq(Tail(t.shape))
    IN  Tensor(Tail(t.shape),
               [j \in 1..inner |->
                   SumSeq([i \in 1..t.shape[1] |-> t.data[(i - 1) * inner + j]])])

\* t.sum()
SumAll(t) == SumSeq(t.data)

FracAdd(a, b) == Frac(a[1] * b[2] + b[1] * a[2], a[2] * b[2])

RECURSIVE FracSum(_)
FracSum(s) == IF s = <<>> THEN <<0, 1>> ELSE FracAdd(s[1], FracSum(Tail(s)))

\* the mean of a sequence of finite fractions
FracMean(s) ==
    IF Len(s) = 0 THEN NaN
    ELSE LET t == FracSum(s) IN Frac(t[1], t[2] * Len(s))

(***************************************************************************)
(* metrics.py:159  recall_binary                                           *)
(***************************************************************************)
recall_binary(logits, y) ==
    LET y_pred == Threshold(SqueezeLast(logits))
    IN  IF ~Broadcastable(y_pred.shape, y.shape) THEN Raise("RuntimeError")
        ELSE LET true_positives == SumAll(Mul(y_pred, y))
                 false_negatives == SumAll(Mul(OneMinus(y_pred), y))
             IN  Ok(Frac(true_positives, true_positives + false_negatives))

(***************************************************************************)
(* metrics.py:165  precision_binary                                        *)
(***************************************************************************)
precision_binary(logits, y) ==
    LET y_pred == Threshold(SqueezeLast(logits))
    IN  IF ~Broadcastable(y_pred.shape, y.shape) THEN Raise("RuntimeError")
        ELSE LET true_positives == SumAll(Mul(y_pred, y))
                 false_positives == SumAll(Mul(y_pred, OneMinus(y)))
             IN  Ok(Frac(true_positives, true_positives + false_positives))

(***************************************************************************)
(* metrics.py:171  specificity_binary                                      *)
(***************************************************************************)
specificity_binary(logits, y) ==
    LET y_pred == Threshold(SqueezeLast(logits))
    IN  IF ~Broadcastable(y_pred.shape, y.shape) THEN Raise("RuntimeError")
        ELSE LET true_negatives == SumAll(Mul(OneMinus(y_pred), OneMinus(y)))
                 false_positives == SumAll(Mul(y_pred, OneMinus(y)))
             IN  Ok(Frac(true_negatives, true_negatives + false_positives))

(***************************************************************************)
(* metrics.py:193  specificity_multilabel                                  *)
(***************************************************************************)
specificity_multilabel(logits, y) ==
    LET y_pred == Threshold(SqueezeLast(logits))
    IN  IF ~Broadcastable(y_pred.shape, y.shape) THEN Raise("RuntimeError")
        ELSE LET true_negatives == SumAxis0(Mul(OneMinus(y_pred), OneMinus(y)))
                 false_positives == SumAxis0(Mul(y_pred, OneMinus(y)))
                 specificity == [j \in 1..Numel(true_negatives) |->
                     Frac(true_negatives.data[j],
                          true_negatives.data[j] + false_positives.data[j])]
                 zeroed == [j \in 1..Len(specificity) |->
                     IF IsNaN(specificity[j]) THEN <<0, 1>> ELSE specificity[j]]
             IN  Ok(FracMean(zeroed))

(***************************************************************************)
(* metrics.py:201  recall_multilabel                                       *)
(***************************************************************************)
\* metrics.py:206  torch.sum(tp) + torch.sum(fp) + epsilon
recall_multilabel_denominator(logits, y) ==
    LET y_pred == Threshold(SqueezeLast(logits))
        tp == SumAxis0(Mul(y_pred, y))
        fp == SumAxis0(Mul(y_pred, OneMinus(y)))
    IN  AddEpsilon(SumAll(tp) + SumAll(fp))

recall_multilabel(logits, y) ==
    LET y_pred == Threshold(SqueezeLast(logits))
    IN  IF ~Broadcastable(y_pred.shape, y.shape) THEN Raise("RuntimeError")
        ELSE LET tp == SumAxis0(Mul(y_pred, y))
             IN  Ok(Quotient(SumAll(tp), recall_multilabel_denominator(logits, y)))

(***************************************************************************)
(* metrics.py:208  precision_multilabel                                    *)
(***************************************************************************)
\* metrics.py:213  torch.sum(tp) + torch.sum(fn) + epsilon
precision_multilabel_denominator(logits, y) ==
    LET y_pred == Threshold(SqueezeLast(logits))
        tp == SumAxis0(Mul(y_pred, y))
        fn_ == SumAxis0(Mul(OneMinus(y_pred), y))
    IN  AddEpsilon(SumAll(tp) + SumAll(fn_))

precision_multilabel(logits, y) ==
    LET y_pred == Threshold(SqueezeLast(logits))
    IN  IF ~Broadcastable(y_pred.shape, y.shape) THEN Raise("RuntimeError")
        ELSE LET tp == SumAxis0(Mul(y_pred, y))
             IN  Ok(Quotient(SumAll(tp), precision_multilabel_denominator(logits, y)))

(***************************************************************************)
(* metrics.py:218-229  loss, bpb, ppl: metrics of an injected loss         *)
(* function.  The functions a caller injects here are mse and mae of this  *)
(* module, called as loss_fn(x, y).                                        *)
(***************************************************************************)
LossFns == {"mse", "mae"}

\* loss_fn(x, y)
LossFnValue(loss_fn, x, y) ==
    IF loss_fn = "mse" THEN mse(x, y, None) ELSE mae(x, y, None)

\* the invocations of loss_fn made by one call of loss, bpb or ppl: the one
\* expression loss_fn(x, y) of metrics.py:220, 225, 229
LossFnCalls(x, y, loss_fn) == <<[f |-> loss_fn, x |-> x, y |-> y]>>

\* metrics.py:218
loss(x, y, loss_fn) == LossFnValue(loss_fn, x, y)

\* math.log(2) = 0.6931..., as Ln2Num / Ln2Den
Ln2Num == 6931
Ln2Den == 10000

\* q / math.log(2)
DivLn2(q) == IF IsNaN(q) THEN NaN ELSE Frac(q[1] * Ln2Den, q[2] * Ln2Num)

\* q * math.log(2)
MulLn2(q) == IF IsNaN(q) THEN NaN ELSE Frac(q[1] * Ln2Num, q[2] * Ln2Den)

\* a bits-per-byte that multiplies by ln 2
bpb_TimesLn2(x, y, loss_fn) ==
    LET v == LossFnValue(loss_fn, x, y)
    IN  IF Returned(v) THEN Ok(MulLn2(v.val)) ELSE v

\* metrics.py:223
bpb(x, y, loss_fn) ==
    LET v == LossFnValue(loss_fn, x, y)
    IN  IF Returned(v) THEN Ok(DivLn2(v.val)) ELSE v

\* torch.exp of a fraction n/d >= 0, rounded down to 1/ExpScale: the series
\* sum of (n/d)^k / k!, each term rounded down, up to the first term of 0
RECURSIVE ExpSeries(_, _, _, _)
ExpSeries(n, d, k, term) ==
    IF term = 0 THEN 0
    ELSE term + ExpSeries(n, d, k + 1, (term * n) \div (d * (k + 1)))

Exp(q) == IF IsNaN(q) THEN NaN ELSE Frac(ExpSeries(q[1], q[2], 0, ExpScale), ExpScale)

\* metrics.py:228
ppl(x, y, loss_fn) ==
    LET v == LossFnValue(loss_fn, x, y)
    IN  IF Returned(v) THEN Ok(Exp(v.val)) ELSE v

(***************************************************************************)
(* The functions of the module and their parameters (the def lines).       *)
(* Params: the parameter names in order; Defaults: those with a default.   *)
(* iou and focal_loss_with_logits are the two imports of the optional      *)
(* segmentation library (lines 262-263).  soft_cross_entropy hands its     *)
(* **kwargs to F.cross_entropy, which has the keywords of neither list.    *)
(***************************************************************************)
TwoArg == <<"output", "target">>

Params(f) ==
    CASE f = "accuracy_at_k" -> <<"logits", "y", "k">>
      [] f \in {"mse", "mae", "forecast_rmse"} -> <<"outs", "y", "len_batch">>
      [] f \in {"loss", "bpb", "ppl"} -> <<"x", "y", "loss_fn">>
      [] f \in {"iou", "iou_with_logits"} ->
             <<"pr", "gt", "eps", "threshold", "ignore_channels">>
      [] OTHER -> TwoArg

Defaults(f) ==
    CASE f = "accuracy_at_k" -> {"k"}
      [] f \in {"mse", "mae", "forecast_rmse"} -> {"len_batch"}
      [] f \in {"iou", "iou_with_logits"} -> {"eps", "threshold", "ignore_channels"}
      [] OTHER -> {}

ModuleFunctions ==
    {"binary_cross_entropy", "binary_accuracy", "cross_entropy", "soft_cross_entropy",
     "accuracy", "accuracy_at_k", "f1_binary", "f1_macro", "f1_micro",
     "roc_auc_macro", "roc_auc_micro", "mse", "forecast_rmse", "mae",
     "recall_binary", "precision_binary", "specificity_binary",
     "specificity_multilabel", "recall_multilabel", "precision_multilabel",
     "student_t_loss", "gaussian_ll_loss", "loss", "bpb", "ppl"}

SegmentationFunctions == {"iou", "iou_with_logits", "focal_loss_with_logits"}

\* a registry value: a function, or functools.partial(f, name=value)
Fn(f) == [f |-> f, kw |-> {}]
Partial(f, name, value) == [f |-> f, kw |-> {<<name, value>>}]

KwNames(e) == {b[1] : b \in e.kw}
KwValue(e, name, dflt) ==
    IF name \in KwNames(e) THEN (CHOOSE b \in e.kw : b[1] = name)[2] ELSE dflt

\* the three bindings of accuracy_at_k with one of them bound to the wrong k
TopKEntries_WrongK ==
    ("accuracy@3" :> Partial("accuracy_at_k", "k", 3)) @@
    ("accuracy@5" :> Partial("accuracy_at_k", "k", 3)) @@
    ("accuracy@10" :> Partial("accuracy_at_k", "k", 10))

\* metrics.py:238-240
TopKEntries ==
    ("accuracy@3" :> Partial("accuracy_at_k", "k", 3)) @@
    ("accuracy@5" :> Partial("accuracy_at_k", "k", 5)) @@
    ("accuracy@10" :> Partial("accuracy_at_k", "k", 10))

(***************************************************************************)
(* metrics.py:233-259  the dict literal of output_metric_fns               *)
(***************************************************************************)
OutputMetricFnsLiteral ==
    ("binary_cross_entropy" :> Fn("binary_cross_entropy")) @@
    ("cross_entropy" :> Fn("cross_entropy")) @@
    ("binary_accuracy" :> Fn("binary_accuracy")) @@
    ("accuracy" :> Fn("accuracy")) @@
    TopKEntries @@
    ("eval_loss" :> Fn("loss")) @@
    ("mse" :> Fn("mse")) @@
    ("mae" :> Fn("mae")) @@
    ("forecast_rmse" :> Fn("forecast_rmse")) @@
    ("f1_binary" :> Fn("f1_binary")) @@
    ("f1_macro" :> Fn("f1_macro")) @@
    ("f1_micro" :> Fn("f1_micro")) @@
    ("roc_auc_macro" :> Fn("roc_auc_macro")) @@
    ("roc_auc_micro" :> Fn("roc_auc_micro")) @@
    ("soft_cross_entropy" :> Fn("soft_cross_entropy")) @@
    ("student_t" :> Fn("student_t_loss")) @@
    ("gaussian_ll" :> Fn("gaussian_ll_loss")) @@
    ("recall_binary" :> Fn("recall_binary")) @@
    ("precision_binary" :> Fn("precision_binary")) @@
    ("specificity_binary" :> Fn("specificity_binary")) @@
    ("recall_multilabel" :> Fn("recall_multilabel")) @@
    ("precision_multilabel" :> Fn("precision_multilabel")) @@
    ("specificity_multilabel" :> Fn("specificity_multilabel"))

\* metrics.py:268-270  the three assignments of the try block; a threshold of
\* 0.5 is written in tenths
SegmentationEntries ==
    ("iou" :> Partial("iou", "threshold", 5)) @@
    ("iou_with_logits" :> Partial("iou_with_logits", "threshold", 5)) @@
    ("focal_loss" :> Fn("focal_loss_with_logits"))

\* metrics.py:274-278  the dict literal of loss_metric_fns
LossMetricFnsLiteral ==
    ("loss" :> Fn("loss")) @@ ("bpb" :> Fn("bpb")) @@ ("ppl" :> Fn("ppl"))

EmptyDict == <<>>

\* d[k] = v for every k of upd, in a dict d
DictUpdate(d, upd) == upd @@ d

\* a merge that keeps the first mapping only
DictMerge_FirstOnly(a, b) == a

\* {**a, **b}: the keys of both, b's value where both have the key
DictMerge(a, b) == b @@ a

(***************************************************************************)
(* A call e(x, y) or e(x, y, loss_fn=loss_fn) of a registry value e, by    *)
(* Python's binding of arguments to the parameters of the def: TypeError   *)
(* for a keyword that is no parameter or a parameter left without a value. *)
(***************************************************************************)
Binds(e, kwgiven) ==
    LET ps == Params(e.f)
        names == {ps[i] : i \in 1..Len(ps)}
        kws == KwNames(e) \cup kwgiven
        bound == {ps[1], ps[2]} \cup kws
    IN  /\ kws \subseteq names
        /\ \A q \in names : q \in bound \/ q \in Defaults(e.f)

Apply(e, x, y, tb, loss_fn) ==
    CASE e.f = "accuracy" -> accuracy(x, y)
      [] e.f = "accuracy_at_k" -> accuracy_at_k(x, y, KwValue(e, "k", 1), tb)
      [] e.f = "loss" -> loss(x, y, loss_fn)
      [] e.f = "bpb" -> bpb(x, y, loss_fn)
      [] e.f = "ppl" -> ppl(x, y, loss_fn)
      [] OTHER -> Opaque

Call(e, x, y, tb, loss_fn) ==
    IF Binds(e, IF loss_fn = "none" THEN {} ELSE {"loss_fn"})
    THEN Apply(e, x, y, tb, loss_fn)
    ELSE Raise("TypeError")

\* the invocations of the injected loss function made by the call
CallsOf(e, x, y, loss_fn) ==
    IF e.f \in {"loss", "bpb", "ppl"} /\ Binds(e, IF loss_fn = "none" THEN {} ELSE {"loss_fn"})
    THEN LossFnCalls(x, y, loss_fn)
    ELSE <<>>

(***************************************************************************)
(* Inputs.                                                                 *)
(***************************************************************************)
LogitVals == 0..1
SoftVals == 0..1

\* (N, C) logits with hard labels (N,) or a one-hot-like target (N, C)
ClassifyInputs(n, c) ==
    {[logits |-> lg, y |-> y, k |-> 0, tb |-> "none"] :
        lg \in Tensors(<<n, c>>, LogitVals),
        y \in Tensors(<<n>>, 0..(c - 1)) \cup Tensors(<<n, c>>, SoftVals)}

\* one row of c logits, with and without ties, and its label
ProbeRows(c) == {[i \in 1..c |-> (i + r) % m] : r \in 0..1, m \in {2, c}}

ProbeInputs(c) ==
    {[x |-> Tensor(<<1, c>>, row), y |-> Tensor(<<1>>, <<t>>)] :
        row \in ProbeRows(c), t \in 0..(c - 1)}

NoArgs == [x |-> Tensor(<<0>>, <<>>), y |-> Tensor(<<0>>, <<>>)]

(***************************************************************************)
(* The import of the module: metrics.py:233-279 statement by statement.    *)
(***************************************************************************)
Registries == {"output_metric_fns", "loss_metric_fns", "metric_fns"}

Init ==
    /\ pc = "start"
    /\ output_metric_fns = EmptyDict
    /\ loss_metric_fns = EmptyDict
    /\ metric_fns = EmptyDict
    /\ segmentation = "untried"
    /\ fn = "none"
    /\ args = NoArgs
    /\ ret = NoCall
    /\ calls = <<>>
    /\ TrainerIdle

\* metrics.py:233
DefineOutputMetricFns ==
    /\ pc = "start"
    /\ output_metric_fns' = OutputMetricFnsLiteral
    /\ pc' = "try_import"
    /\ UNCHANGED <<trainer, calls, loss_metric_fns, metric_fns, segmentation, fn, args, ret>>

\* metrics.py:261-270  both imports succeed
ImportSegmentation ==
    /\ pc = "try_import"
    /\ output_metric_fns' = DictUpdate(output_metric_fns, SegmentationEntries)
    /\ segmentation' = "imported"
    /\ pc' = "loss_fns"
    /\ UNCHANGED <<trainer, calls, loss_metric_fns, metric_fns, fn, args, ret>>

\* metrics.py:271-272  an import raises ImportError: pass
ImportSegmentationFails ==
    /\ pc = "try_import"
    /\ segmentation' = "ImportError"
    /\ pc' = "loss_fns"
    /\ UNCHANGED <<trainer, calls, output_metric_fns, loss_metric_fns, metric_fns, fn, args, ret>>

\* metrics.py:274
DefineLossMetricFns ==
    /\ pc = "loss_fns"
    /\ loss_metric_fns' = LossMetricFnsLiteral
    /\ pc' = "merge"
    /\ UNCHANGED <<trainer, calls, output_metric_fns, metric_fns, segmentation, fn, args, ret>>

\* metrics.py:279
MergeMetricFns ==
    /\ pc = "merge"
    /\ metric_fns' = DictMerge(output_metric_fns, loss_metric_fns)
    /\ pc' = "loaded"
    /\ UNCHANGED <<trainer, calls, output_metric_fns, loss_metric_fns, segmentation, fn, args, ret>>

Registry(name) ==
    CASE name = "output_metric_fns" -> output_metric_fns
      [] name = "loss_metric_fns" -> loss_metric_fns
      [] name = "metric_fns" -> metric_fns

\* a caller looks a key up in one of the mappings and calls the value with
\* (output, target), or with (output, target, loss_fn=...)
Invoke ==
    /\ pc = "loaded"
    /\ \E r \in Registries : \E key \in DOMAIN Registry(r) :
       \E c \in 1..MaxProbeC : \E in \in ProbeInputs(c) :
       \E tb \in TieBreaks : \E lf \in LossFns \cup {"none"} :
          /\ fn' = Registry(r)[key].f
          /\ args' = [registry |-> r, key |-> key, x |-> in.x, y |-> in.y,
                      tb |-> tb, loss_fn |-> lf]
          /\ ret' = Call(Registry(r)[key], in.x, in.y, tb, lf)
          /\ calls' = CallsOf(Registry(r)[key], in.x, in.y, lf)
    /\ pc' = "called"
    /\ UNCHANGED <<trainer, output_metric_fns, loss_metric_fns, metric_fns, segmentation>>

Return ==
    /\ pc = "called"
    /\ pc' = "loaded"
    /\ fn' = "none"
    /\ args' = NoArgs
    /\ ret' = NoCall
    /\ calls' = <<>>
    /\ UNCHANGED <<trainer, output_metric_fns, loss_metric_fns, metric_fns, segmentation>>

Next ==
    \/ DefineOutputMetricFns
    \/ ImportSegmentation
    \/ ImportSegmentationFails
    \/ DefineLossMetricFns
    \/ MergeMetricFns
    \/ Invoke
    \/ Return

Spec == Init /\ [][Next]_vars

(***************************************************************************)
(* Calls of accuracy and accuracy_at_k on classification batches, in a     *)
(* process that has imported the module without the optional library.      *)
(***************************************************************************)
Loaded ==
    /\ output_metric_fns = OutputMetricFnsLiteral
    /\ loss_metric_fns = LossMetricFnsLiteral
    /\ metric_fns = DictMerge(OutputMetricFnsLiteral, LossMetricFnsLiteral)
    /\ segmentation = "ImportError"

InitClassify ==
    /\ pc = "loaded"
    /\ Loaded
    /\ fn = "none"
    /\ \E n \in 1..MaxN : \E c \in 1..MaxC :
          n * c <= MaxElems /\ args \in ClassifyInputs(n, c)
    /\ ret = NoCall
    /\ calls = <<>>
    /\ TrainerIdle

CallAccuracy ==
    /\ pc = "loaded"
    /\ fn' = "accuracy"
    /\ ret' = accuracy(args.logits, args.y)
    /\ pc' = "called"
    /\ UNCHANGED <<trainer, calls, output_metric_fns, loss_metric_fns, metric_fns, segmentation, args>>

CallAccuracyAtK ==
    /\ pc = "loaded"
    /\ \E k \in 1..(MaxC + 1) : \E tb \in TieBreaks :
          /\ args' = [args EXCEPT !.k = k, !.tb = tb]
          /\ ret' = accuracy_at_k(args.logits, args.y, k, tb)
    /\ fn' = "accuracy_at_k"
    /\ pc' = "called"
    /\ UNCHANGED <<trainer, calls, output_metric_fns, loss_metric_fns, metric_fns, segmentation>>

NextClassify == CallAccuracy \/ CallAccuracyAtK

SpecClassify == InitClassify /\ [][NextClassify]_vars

(***************************************************************************)
(* Calls of mse, mae and forecast_rmse on padded batches (batch, time) or  *)
(* (batch, time, channel), the target of the same shape or without the     *)
(* channel axis, with and without a length vector.                         *)
(***************************************************************************)
OutVals == {0, 2}
TargetVals == {0, 1}

RegressShapes ==
    {sh \in {<<b, t>> : b \in 1..MaxB, t \in 1..MaxT}
            \cup {<<b, t, d>> : b \in 1..MaxB, t \in 1..MaxT, d \in 1..MaxD} :
        ProdSeq(sh) <= MaxOutElems}

TargetShapes(sh) == IF Len(sh) = 3 THEN {sh, Front(sh)} ELSE {sh}

RegressInputs(sh, ysh) ==
    {[outs |-> o, y |-> y, len_batch |-> l] :
        o \in Tensors(sh, OutVals),
        y \in Tensors(ysh, TargetVals),
        l \in {None} \cup [1..sh[1] -> 0..sh[2]]}

InitRegress ==
    /\ pc = "loaded"
    /\ Loaded
    /\ fn = "none"
    /\ \E sh \in RegressShapes : \E ysh \in TargetShapes(sh) :
          args \in RegressInputs(sh, ysh)
    /\ ret = NoCall
    /\ calls = <<>>
    /\ TrainerIdle

CallMse ==
    /\ pc = "loaded"
    /\ fn' = "mse"
    /\ ret' = mse(args.outs, args.y, args.len_batch)
    /\ pc' = "called"
    /\ UNCHANGED <<trainer, calls, output_metric_fns, loss_metric_fns, metric_fns, segmentation, args>>

CallMae ==
    /\ pc = "loaded"
    /\ fn' = "mae"
    /\ ret' = mae(args.outs, args.y, args.len_batch)
    /\ pc' = "called"
    /\ UNCHANGED <<trainer, calls, output_metric_fns, loss_metric_fns, metric_fns, segmentation, args>>

CallForecastRmse ==
    /\ pc = "loaded"
    /\ fn' = "forecast_rmse"
    /\ ret' = forecast_rmse(args.outs, args.y, args.len_batch)
    /\ pc' = "called"
    /\ UNCHANGED <<trainer, calls, output_metric_fns, loss_metric_fns, metric_fns, segmentation, args>>

NextRegress == CallMse \/ CallMae \/ CallForecastRmse

SpecRegress == InitRegress /\ [][NextRegress]_vars

(***************************************************************************)
(* Calls of the confusion-matrix metrics on (samples, labels) logits with  *)
(* binary targets of the same shape or, for a single label, flat.          *)
(***************************************************************************)
ThresholdLogits == {-1, 0, 1}

ConfusionInputs(n, l) ==
    {[logits |-> lg, y |-> y] :
        lg \in Tensors(<<n, l>>, ThresholdLogits),
        y \in Tensors(<<n, l>>, 0..1) \cup (IF l = 1 THEN Tensors(<<n>>, 0..1) ELSE {})}

InitConfusion ==
    /\ pc = "loaded"
    /\ Loaded
    /\ fn = "none"
    /\ \E n \in 1..MaxM : \E l \in 1..MaxL :
          n * l <= MaxMlElems /\ args \in ConfusionInputs(n, l)
    /\ ret = NoCall
    /\ calls = <<>>
    /\ TrainerIdle

CallRecallBinary ==
    /\ pc = "loaded"
    /\ fn' = "recall_binary"
    /\ ret' = recall_binary(args.logits, args.y)
    /\ pc' = "called"
    /\ UNCHANGED <<trainer, calls, output_metric_fns, loss_metric_fns, metric_fns, segmentation, args>>

CallPrecisionBinary ==
    /\ pc = "loaded"
    /\ fn' = "precision_binary"
    /\ ret' = precision_binary(args.logits, args.y)
    /\ pc' = "called"
    /\ UNCHANGED <<trainer, calls, output_metric_fns, loss_metric_fns, metric_fns, segmentation, args>>

CallSpecificityBinary ==
    /\ pc = "loaded"
    /\ fn' = "specificity_binary"
    /\ ret' = specificity_binary(args.logits, args.y)
    /\ pc' = "called"
    /\ UNCHANGED <<trainer, calls, output_metric_fns, loss_metric_fns, metric_fns, segmentation, args>>

CallSpecificityMultilabel ==
    /\ pc = "loaded"
    /\ fn' = "specificity_multilabel"
    /\ ret' = specificity_multilabel(args.logits, args.y)
    /\ pc' = "called"
    /\ UNCHANGED <<trainer, calls, output_metric_fns, loss_metric_fns, metric_fns, segmentation, args>>

CallRecallMultilabel ==
    /\ pc = "loaded"
    /\ fn' = "recall_multilabel"
    /\ ret' = recall_multilabel(args.logits, args.y)
    /\ pc' = "called"
    /\ UNCHANGED <<trainer, calls, output_metric_fns, loss_metric_fns, metric_fns, segmentation, args>>

CallPrecisionMultilabel ==
    /\ pc = "loaded"
    /\ fn' = "precision_multilabel"
    /\ ret' = precision_multilabel(args.logits, args.y)
    /\ pc' = "called"
    /\ UNCHANGED <<trainer, calls, output_metric_fns, loss_metric_fns, metric_fns, segmentation, args>>

NextConfusion ==
    \/ CallRecallBinary
    \/ CallPrecisionBinary
    \/ CallSpecificityBinary
    \/ CallSpecificityMultilabel
    \/ CallRecallMultilabel
    \/ CallPrecisionMultilabel

SpecConfusion == InitConfusion /\ [][NextConfusion]_vars

(***************************************************************************)
(* Claims about accuracy and accuracy_at_k (SpecClassify).                 *)
(***************************************************************************)
Rank(t) == Len(t.shape)

\* the call of the state with the target replaced by t
SameCallWith(t) ==
    IF fn = "accuracy" THEN accuracy(args.logits, t)
    ELSE accuracy_at_k(args.logits, t, args.k, args.tb)

Top1Call == fn = "accuracy" \/ (fn = "accuracy_at_k" /\ args.k = 1)

\* a target of exactly N elements scored as hard labels, element by element
HardLabelScore ==
    LET n == args.logits.shape[1]
        c == args.logits.shape[2]
        row(i) == Group(args.logits, c, i)
        hit(i) == IF fn = "accuracy" THEN ArgmaxSeq(row(i)) = args.y.data[i]
                  ELSE args.y.data[i] \in TopK(row(i), 1, args.tb)
    IN  Ok(Frac(Cardinality({i \in 1..n : hit(i)}), n))

\* an (N, C) target with C >= minC takes the arg-max path and scores as its
\* manual reduction does
MixupMatchesManual(minC) ==
    (/\ pc = "called" /\ Top1Call
     /\ Rank(args.y) = 2 /\ args.logits.shape[2] >= minC) =>
        /\ Numel(args.y) > args.logits.shape[1]
        /\ ret = SameCallWith(ArgmaxLast(args.y))

\* a target of exactly N elements is used as hard labels unchanged
HardLabelsUnchanged ==
    (pc = "called" /\ Top1Call /\ Numel(args.y) = args.logits.shape[1]) =>
        ret = HardLabelScore

\* C1 as claimed: for every N >= 1 and C >= 1 an (N, C) one-hot-like target takes
\* the arg-max path of accuracy / accuracy_at_k(k=1) and scores as the manually
\* reduced target does; a target of exactly N elements is scored as hard labels.
C1_AsClaimed == MixupMatchesManual(1) /\ HardLabelsUnchanged

\* C1 amended: the same for every N >= 1 and C >= 2; with C = 1 the target has
\* N elements, is not reduced, and is compared as hard labels.
C1_MixupMatchesManual == MixupMatchesManual(2) /\ HardLabelsUnchanged

C1_Witness ==
    /\ pc = "called" /\ fn = "accuracy"
    /\ Rank(args.y) = 2 /\ args.logits.shape = <<2, 2>>
    /\ ret = Ok(<<1, 2>>)
    /\ accuracy(args.logits, ArgmaxLast(args.y)) = Ok(<<1, 2>>)

\* C2: on (N, C) logits and integer targets in [0, C), accuracy_at_k with k = C
\* returns exactly 1.0, ties between classes included.
C2_TopAllIsOne ==
    (/\ pc = "called" /\ fn = "accuracy_at_k"
     /\ Rank(args.y) = 1 /\ args.k = args.logits.shape[2])
        => ret = Ok(<<1, 1>>)

C2_Witness ==
    /\ pc = "called" /\ fn = "accuracy_at_k"
    /\ Rank(args.y) = 1 /\ args.k = 2 /\ args.logits.shape = <<2, 2>>
    /\ args.logits.data = <<1, 1, 0, 1>>
    /\ args.y.data = <<1, 0>>
    /\ ret = Ok(<<1, 1>>)

(***************************************************************************)
(* Claims about mse, mae and forecast_rmse (SpecRegress).                  *)
(***************************************************************************)
\* the output as compared with the target: without its size-1 channel axis
\* when the target has none
Compared(outs, y) ==
    IF Len(y.shape) < Len(outs.shape) THEN Tensor(Front(outs.shape), outs.data) ELSE outs

\* the base loss over exactly the elements at time-steps t < length[i]
ValidStepsLoss ==
    LET o == Compared(args.outs, args.y)
        valid == {p \in 1..Numel(o) :
                     Coord(p - 1, o.shape, 2)
                         < args.len_batch[Coord(p - 1, o.shape, 1) + 1]}
        err(p) == LET d == o.data[p] - args.y.data[p]
                  IN  IF fn = "mse" THEN d * d ELSE Abs(d)
        RECURSIVE Total(_)
        Total(S) == IF S = {} THEN 0
                    ELSE LET q == CHOOSE q \in S : TRUE IN err(q) + Total(S \ {q})
    IN  Ok(Frac(Total(valid), Cardinality(valid)))

\* the batch is one the claim covers: a length vector is given and the target
\* has the shape of the output, or of the output without a size-1 channel axis
MaskedCase ==
    /\ pc = "called" /\ fn \in {"mse", "mae"}
    /\ args.len_batch # None
    /\ Len(args.y.shape) < Len(args.outs.shape) => Last(args.outs.shape) = 1

\* C3: with a length vector, mse / mae of a padded batch (batch, time[, channel]),
\* also after the size-1 output axis is dropped, is the base loss over exactly
\* the elements at time-steps t < length[i]; the padded tail has no influence.
C3_MaskedLossOverValidSteps == MaskedCase => ret = ValidStepsLoss

\* the part of C3 the code meets: batches that keep a channel axis (rank 3
\* after the squeeze)
C3_HoldsWithChannelAxis ==
    (MaskedCase /\ Len(Compared(args.outs, args.y).shape) >= 3) => ret = ValidStepsLoss

C3_RaisesWithoutChannelAxis ==
    (MaskedCase /\ Len(Compared(args.outs, args.y).shape) < 3) => ret = Raise("IndexError")

FracLess(a, b) == a[1] * b[2] < b[1] * a[2]

\* squared error of series i (0-based) at time-step t (0-based) of a (series, time) batch
SqErr(i, t) ==
    LET p == i * args.outs.shape[2] + t + 1
    IN  (args.outs.data[p] - args.y.data[p]) * (args.outs.data[p] - args.y.data[p])

RECURSIVE SumTo(_, _)
\* f[0] + ... + f[n - 1]
SumTo(f, n) == IF n = 0 THEN 0 ELSE f[n - 1] + SumTo(f, n - 1)

SeriesMse(i) ==
    LET T == args.outs.shape[2]
    IN  Frac(SumTo([t \in 0..(T - 1) |-> SqErr(i, t)], T), T)

MeanOfSeriesRmse ==
    LET S == args.outs.shape[1]
    IN  Frac(SumTo([i \in 0..(S - 1) |-> SqrtUnits(SeriesMse(i))], S), S * SqrtScale)

GlobalRmse ==
    LET S == args.outs.shape[1]
        T == args.outs.shape[2]
    IN  Frac(SqrtUnits(Frac(SumTo([p \in 0..(S * T - 1) |-> SqErr(p \div T, p % T)],
                                  S * T), S * T)), SqrtScale)

SeriesTimeCase ==
    /\ pc = "called" /\ fn = "forecast_rmse"
    /\ Len(args.outs.shape) = 2 /\ args.y.shape = args.outs.shape

\* C7: on (series, time) batches forecast_rmse returns the mean over series of
\* the root of the mean over time of the squared error, whatever length vector is
\* passed; wherever the series differ in their mean squared error that is below
\* the root of the mean of all squared errors, which it does not return.
C7_RmsePerSeriesThenMean ==
    SeriesTimeCase =>
        /\ ret = Ok(MeanOfSeriesRmse)
        /\ (\E i, j \in 0..(args.outs.shape[1] - 1) : SeriesMse(i) # SeriesMse(j))
              => FracLess(ret.val, GlobalRmse)

C7_Witness ==
    /\ SeriesTimeCase
    /\ args.outs.shape = <<2, 2>>
    /\ args.len_batch = <<1, 2>>
    /\ SeriesMse(0) = <<1, 2>> /\ SeriesMse(1) = <<4, 1>>
    /\ ret = Ok(MeanOfSeriesRmse)
    /\ ret.val # GlobalRmse

(***************************************************************************)
(* Claims about the multi-label confusion-matrix metrics (SpecConfusion).  *)
(* The counts are taken from the arguments element by element: element p   *)
(* (0-based, row-major) of the (samples, labels) logits belongs to label   *)
(* p % labels, and to the same element of the target in either layout.     *)
(***************************************************************************)
Labels == args.logits.shape[2]
Elements == 0..(Numel(args.logits) - 1)
PredictedPositive(p) == args.logits.data[p + 1] >= 0
ActualPositive(p) == args.y.data[p + 1] = 1

TP(S) == Cardinality({p \in S : PredictedPositive(p) /\ ActualPositive(p)})
FP(S) == Cardinality({p \in S : PredictedPositive(p) /\ ~ActualPositive(p)})
FN(S) == Cardinality({p \in S : ~PredictedPositive(p) /\ ActualPositive(p)})
TN(S) == Cardinality({p \in S : ~PredictedPositive(p) /\ ~ActualPositive(p)})

OfLabel(l) == {p \in Elements : p % Labels = l}

\* C4: recall_multilabel is sum(TP) / (sum(TP) + sum(FN) + epsilon) and
\* precision_multilabel is sum(TP) / (sum(TP) + sum(FP) + epsilon); on a
\* single-label batch recall_binary / precision_binary are the same ratios
\* without the epsilon.
C4_RecallAndPrecisionRatios ==
    /\ (pc = "called" /\ fn = "recall_multilabel") =>
          ret = Ok(Quotient(TP(Elements), AddEpsilon(TP(Elements) + FN(Elements))))
    /\ (pc = "called" /\ fn = "precision_multilabel") =>
          ret = Ok(Quotient(TP(Elements), AddEpsilon(TP(Elements) + FP(Elements))))
    /\ (pc = "called" /\ fn = "recall_binary" /\ Rank(args.y) = 1) =>
          ret = Ok(Frac(TP(Elements), TP(Elements) + FN(Elements)))
    /\ (pc = "called" /\ fn = "precision_binary" /\ Rank(args.y) = 1) =>
          ret = Ok(Frac(TP(Elements), TP(Elements) + FP(Elements)))

\* what the code returns instead on batches of two or more labels: the two
\* definitions are exchanged
C4_CodeExchangesTheTwo ==
    (pc = "called" /\ Labels >= 2) =>
        /\ fn = "recall_multilabel" =>
              ret = Ok(Quotient(TP(Elements), AddEpsilon(TP(Elements) + FP(Elements))))
        /\ fn = "precision_multilabel" =>
              ret = Ok(Quotient(TP(Elements), AddEpsilon(TP(Elements) + FN(Elements))))

\* mean over all labels of TN / (TN + FP), a label without negatives counting 0
MeanLabelSpecificity ==
    FracMean([j \in 1..Labels |->
        IF TN(OfLabel(j - 1)) + FP(OfLabel(j - 1)) = 0 THEN <<0, 1>>
        ELSE Frac(TN(OfLabel(j - 1)), TN(OfLabel(j - 1)) + FP(OfLabel(j - 1)))])

\* C5: specificity_multilabel is the mean over ALL labels of the per-label ratio
\* TN / (TN + FP) taken over the batch axis, with the ratio of a label that has
\* no negatives replaced by 0; it is never NaN.
C5_MeanOfLabelSpecificity ==
    (pc = "called" /\ fn = "specificity_multilabel") =>
        /\ ret = Ok(MeanLabelSpecificity)
        /\ ~IsNaN(ret.val)

\* where C5 holds of the code: two or more labels, or one label with a flat target
C5_HoldsUnlessColumnTarget ==
    (/\ pc = "called" /\ fn = "specificity_multilabel"
     /\ ~(Labels = 1 /\ Rank(args.y) = 2)) =>
        /\ ret = Ok(MeanLabelSpecificity)
        /\ ~IsNaN(ret.val)

C5_NeverNaN ==
    (pc = "called" /\ fn = "specificity_multilabel") => Returned(ret) /\ IsFinite(ret.val)

AtLeastEpsilon(d) == d[1] >= d[2] \/ d[1] * EpsilonInv >= d[2]

DenominatorPositive ==
    /\ fn = "recall_multilabel" =>
          AtLeastEpsilon(recall_multilabel_denominator(args.logits, args.y))
    /\ fn = "precision_multilabel" =>
          AtLeastEpsilon(precision_multilabel_denominator(args.logits, args.y))

MultilabelRatioCall == pc = "called" /\ fn \in {"recall_multilabel", "precision_multilabel"}

ModuleLoaded == pc \in {"loaded", "called"}

SegmentationKeys == {"iou", "iou_with_logits", "focal_loss"}

\* the keys of the registry of a process that has the segmentation library
KeysWithLibrary ==
    DOMAIN DictUpdate(OutputMetricFnsLiteral, SegmentationEntries)
        \cup DOMAIN LossMetricFnsLiteral

Callable(e) ==
    \/ e.f \in ModuleFunctions
    \/ segmentation = "imported" /\ e.f \in SegmentationFunctions

\* C8: metric_fns has exactly the keys of output_metric_fns and loss_metric_fns,
\* every key resolves to a callable and to the value of its source mapping; a
\* failed import of the segmentation library is passed over (the import goes on
\* to the next statement) and the registry then lacks exactly the keys iou,
\* iou_with_logits and focal_loss.
C8_MergedRegistry ==
    /\ segmentation = "ImportError" => pc \in {"loss_fns", "merge", "loaded", "called"}
    /\ ModuleLoaded =>
        /\ DOMAIN metric_fns = DOMAIN output_metric_fns \cup DOMAIN loss_metric_fns
        /\ \A key \in DOMAIN metric_fns : Callable(metric_fns[key])
        /\ \A key \in DOMAIN output_metric_fns : metric_fns[key] = output_metric_fns[key]
        /\ \A key \in DOMAIN loss_metric_fns : metric_fns[key] = loss_metric_fns[key]
        /\ segmentation = "ImportError" =>
              DOMAIN metric_fns = KeysWithLibrary \ SegmentationKeys
        /\ segmentation = "imported" => DOMAIN metric_fns = KeysWithLibrary
        /\ Cardinality(KeysWithLibrary \ SegmentationKeys)
              = Cardinality(KeysWithLibrary) - 3

C8_Witness ==
    /\ pc = "loaded" /\ segmentation = "ImportError"
    /\ {"mse", "accuracy@10", "eval_loss", "loss", "bpb", "ppl"} \subseteq DOMAIN metric_fns
    /\ DOMAIN metric_fns \cap SegmentationKeys = {}
    /\ Cardinality(DOMAIN metric_fns) = 28

\* the parameters of a registry value that a call must supply
Required(e) ==
    {Params(e.f)[i] : i \in 1..Len(Params(e.f))} \ (Defaults(e.f) \cup KwNames(e))

\* C9: every entry of output_metric_fns is callable with only (output, target),
\* and no key of output_metric_fns resolves to a function that needs loss_fn.
C9_OutputMetricsTakeTwoArguments ==
    /\ ModuleLoaded =>
          \A key \in DOMAIN output_metric_fns :
              "loss_fn" \notin Required(output_metric_fns[key])
    /\ (pc = "called" /\ args.registry = "output_metric_fns" /\ args.loss_fn = "none")
          => ret.exc # "TypeError"

TopKs == {1, 3, 5, 10}

BoundTo(e, k) == e.f = "accuracy_at_k" /\ KwValue(e, "k", 1) = k

\* C10 as claimed: for each k in {1, 3, 5, 10} the registry has an entry that is
\* accuracy_at_k bound to k.
C10_AsClaimed ==
    ModuleLoaded =>
        \A k \in TopKs : \E key \in DOMAIN metric_fns : BoundTo(metric_fns[key], k)

\* the classes of the one-row batch of the call that score above / not below
\* the class of the label
Above == {j \in 1..Len(args.x.data) : args.x.data[j] > args.x.data[args.y.data[1] + 1]}
NotBelow ==
    {j \in 1..Len(args.x.data) : args.x.data[j] >= args.x.data[args.y.data[1] + 1]}
        \ {args.y.data[1] + 1}

TopKKey(k) ==
    CASE k = 3 -> "accuracy@3" [] k = 5 -> "accuracy@5" [] k = 10 -> "accuracy@10"

\* C10 amended: for each k in {3, 5, 10} the registry has the entry accuracy@k,
\* which is accuracy_at_k bound to k: called on a batch of at least k classes it
\* counts the prediction correct when fewer than k classes score at least as
\* high as the label, and not when k or more score higher; on fewer than k
\* classes the call raises.  Top-1 accuracy is
\* the entry accuracy, the function accuracy, not a binding of accuracy_at_k.
C10_TopKEntries ==
    /\ ModuleLoaded =>
          /\ \A k \in TopKs \ {1} :
                /\ TopKKey(k) \in DOMAIN metric_fns
                /\ BoundTo(metric_fns[TopKKey(k)], k)
          /\ metric_fns["accuracy"] = Fn("accuracy")
          /\ \A key \in DOMAIN metric_fns : ~BoundTo(metric_fns[key], 1)
    /\ \A k \in TopKs \ {1} :
          (/\ pc = "called" /\ args.key = TopKKey(k) /\ args.loss_fn = "none"
           /\ Len(args.x.data) >= k) =>
              /\ fn = "accuracy_at_k"
              /\ Returned(ret)
              /\ Cardinality(NotBelow) < k => ret.val = <<1, 1>>
              /\ Cardinality(Above) >= k => ret.val = <<0, 1>>
    /\ \A k \in TopKs \ {1} :
          (/\ pc = "called" /\ args.key = TopKKey(k) /\ args.loss_fn = "none"
           /\ Len(args.x.data) < k) =>
              ret = Raise("RuntimeError")

C10_Witness ==
    /\ pc = "called" /\ args.key = "accuracy@5" /\ args.loss_fn = "none"
    /\ args.registry = "metric_fns"
    /\ Len(args.x.data) = 10
    /\ Cardinality(Above) = 5
    /\ ret = Ok(<<0, 1>>)

(***************************************************************************)
(* Calls of the loss-dependent metrics through the registry: the caller    *)
(* looks up loss, eval_loss, bpb or ppl and calls the value with           *)
(* (x, y, loss_fn=loss_fn).                                                *)
(***************************************************************************)
LossInputs(sh, ysh) ==
    {[x |-> o, y |-> y, loss_fn |-> f, key |-> "none"] :
        o \in Tensors(sh, OutVals), y \in Tensors(ysh, TargetVals), f \in LossFns}

InitLoss ==
    /\ pc = "loaded"
    /\ Loaded
    /\ fn = "none"
    /\ \E sh \in RegressShapes : \E ysh \in TargetShapes(sh) :
          args \in LossInputs(sh, ysh)
    /\ ret = NoCall
    /\ calls = <<>>
    /\ TrainerIdle

CallLossMetric(key) ==
    /\ pc = "loaded"
    /\ key \in DOMAIN metric_fns
    /\ fn' = metric_fns[key].f
    /\ args' = [args EXCEPT !.key = key]
    /\ ret' = Call(metric_fns[key], args.x, args.y, "first", args.loss_fn)
    /\ calls' = CallsOf(metric_fns[key], args.x, args.y, args.loss_fn)
    /\ pc' = "called"
    /\ UNCHANGED <<trainer, output_metric_fns, loss_metric_fns, metric_fns, segmentation>>

CallLoss == \E key \in {"loss", "eval_loss"} : CallLossMetric(key)

CallBpb == CallLossMetric("bpb")

CallPpl == CallLossMetric("ppl")

NextLoss == CallLoss \/ CallBpb \/ CallPpl

SpecLoss == InitLoss /\ [][NextLoss]_vars

(***************************************************************************)
(* In-place writes.  Inside a function a tensor lives in the memory of the *)
(* caller's first argument ("x"), of the caller's target ("y"), or in      *)
(* memory the function allocated ("fresh").  The module writes in place    *)
(* twice: mask[i, :l, :] = 1 in mse / mae (metrics.py:132, 153) and        *)
(* specificity[torch.isnan(specificity)] = 0.0 (metrics.py:198).           *)
(***************************************************************************)
Fresh == "fresh"

\* t.view(...), t.squeeze(-1): a view shares the memory of t
ViewOf(storage) == storage

\* a zeros_like that hands back the memory of its argument
zeros_like_Shared(storage) == storage

\* torch.zeros_like(t, dtype=torch.bool): new memory
zeros_like(storage) == Fresh

\* a / b, a + b: new memory
ArithmeticResult(sa, sb) == Fresh

\* the caller's tensors after the value v is written at the positions of a
\* mask (flat, row-major) into a tensor living in the given memory
WriteInPlace(inputs, storage, mask, v) ==
    LET written(data) ==
            [p \in 1..Len(data) |-> IF p <= Len(mask) /\ mask[p] THEN v ELSE data[p]]
    IN  CASE storage = "x" -> [inputs EXCEPT !.x.data = written(@)]
          [] storage = "y" -> [inputs EXCEPT !.y.data = written(@)]
          [] OTHER -> inputs

\* metrics.py:122-132 and 144-153: the caller's tensors after mse / mae
MaskedLossInputsAfter(inputs) ==
    LET outs == inputs.x
        y == inputs.y
    IN  IF Len(y.shape) < Len(outs.shape) /\ Last(outs.shape) # 1 THEN inputs
        ELSE LET o == IF Len(y.shape) < Len(outs.shape) THEN SqueezeLast(outs) ELSE outs
                 mask == zeros_like(ViewOf("x"))
             IN  IF inputs.len_batch = None \/ Len(o.shape) < 3 THEN inputs
                 ELSE WriteInPlace(inputs, mask, LengthMask(o, inputs.len_batch), 1)

\* metrics.py:194-198: the caller's tensors after specificity_multilabel
SpecificityInputsAfter(inputs) ==
    LET y_pred == Threshold(SqueezeLast(inputs.x))
    IN  IF ~Broadcastable(y_pred.shape, inputs.y.shape) THEN inputs
        ELSE LET true_negatives == SumAxis0(Mul(OneMinus(y_pred), OneMinus(inputs.y)))
                 false_positives == SumAxis0(Mul(y_pred, OneMinus(inputs.y)))
                 specificity == ArithmeticResult(Fresh, ArithmeticResult(Fresh, Fresh))
                 isnan == [j \in 1..Numel(true_negatives) |->
                              true_negatives.data[j] + false_positives.data[j] = 0]
             IN  WriteInPlace(inputs, specificity, isnan, 0)

InputsAfter(f, inputs) ==
    CASE f \in {"mse", "mae"} -> MaskedLossInputsAfter(inputs)
      [] f = "specificity_multilabel" -> SpecificityInputsAfter(inputs)
      [] OTHER -> inputs

\* the call f(x, y), f(x, y, k=k) or f(x, y, len_batch) of a function of the module
Run(f, a) ==
    CASE f = "accuracy" -> accuracy(a.x, a.y)
      [] f = "accuracy_at_k" -> accuracy_at_k(a.x, a.y, a.k, a.tb)
      [] f = "mse" -> mse(a.x, a.y, a.len_batch)
      [] f = "mae" -> mae(a.x, a.y, a.len_batch)
      [] f = "forecast_rmse" -> forecast_rmse(a.x, a.y, a.len_batch)
      [] f = "recall_binary" -> recall_binary(a.x, a.y)
      [] f = "precision_binary" -> precision_binary(a.x, a.y)
      [] f = "specificity_binary" -> specificity_binary(a.x, a.y)
      [] f = "specificity_multilabel" -> specificity_multilabel(a.x, a.y)
      [] f = "recall_multilabel" -> recall_multilabel(a.x, a.y)
      [] f = "precision_multilabel" -> precision_multilabel(a.x, a.y)

(***************************************************************************)
(* A caller that keeps its tensors and calls metric after metric on them,  *)
(* each one possibly twice in a row.  The order in which torch.topk lists  *)
(* equal elements belongs to the build and the device, not to the call.    *)
(***************************************************************************)
FrameFns(family) ==
    CASE family = "classify" -> {"accuracy", "accuracy_at_k"}
      [] family = "regress" -> {"mse", "mae", "forecast_rmse"}
      [] family = "confusion" ->
             {"recall_binary", "precision_binary", "specificity_binary",
              "specificity_multilabel",
              "recall_multilabel", "precision_multilabel"}

FrameInputs(family, a, b) ==
    CASE family = "classify" ->
             {[x |-> in.logits, y |-> in.y, len_batch |-> None, k |-> k, tb |-> tb,
               family |-> family] :
                 in \in ClassifyInputs(a, b), k \in 1..b, tb \in TieBreaks}
      [] family = "regress" ->
             UNION {{[x |-> in.outs, y |-> in.y, len_batch |-> in.len_batch, k |-> 0,
                      tb |-> "none", family |-> family] :
                        in \in IF ysh \in TargetShapes(sh) THEN RegressInputs(sh, ysh)
                                                        ELSE {}} :
                    sh \in {s \in RegressShapes : s[1] = a /\ s[2] = b},
                    ysh \in {<<a, b>>} \cup {<<a, b, d>> : d \in 1..MaxD}}
      [] family = "confusion" ->
             {[x |-> in.logits, y |-> in.y, len_batch |-> None, k |-> 0, tb |-> "none",
               family |-> family] : in \in ConfusionInputs(a, b)}

InitFrame ==
    /\ pc = "loaded"
    /\ Loaded
    /\ fn = "none"
    /\ \E family \in {"classify", "regress", "confusion"} :
       \E a \in 1..MaxB : \E b \in 1..MaxT :
          a * b <= MaxOutElems /\ args \in FrameInputs(family, a, b)
    /\ ret = NoCall
    /\ calls = <<>>
    /\ TrainerIdle

FrameCall(f) ==
    /\ fn' = f
    /\ ret' = Run(f, args)
    /\ args' = [InputsAfter(f, args) EXCEPT !.k = args.k]
    /\ UNCHANGED <<trainer, calls, output_metric_fns, loss_metric_fns, metric_fns, segmentation>>

\* the caller calls a metric on its tensors
CallMetric ==
    /\ pc \in {"loaded", "called", "called_twice"}
    /\ \E f \in FrameFns(args.family) : f # fn /\ FrameCall(f)
    /\ pc' = "called"

\* the caller calls the same metric again
CallMetricAgain ==
    /\ pc = "called"
    /\ FrameCall(fn)
    /\ pc' = "called_twice"

NextFrame == CallMetric \/ CallMetricAgain

SpecFrame == InitFrame /\ [][NextFrame]_vars

(***************************************************************************)
(* metrics.py:7-38  the likelihood losses, in float32.  A non-negative     *)
(* float is kept by its size only: zero, or positive with the binary       *)
(* exponent exp (the value is in [2^exp, 2^(exp+1)) ).  Raw channels are   *)
(* integers.                                                               *)
(***************************************************************************)
Zero == [zero |-> TRUE, exp |-> 0]
Positive(e) == [zero |-> FALSE, exp |-> e]

\* log2(e) = 1.4427, as Log2ENum / Log2EDen
Log2ENum == 14427
Log2EDen == 10000

\* the smallest positive float32 is 2^F32MinExp; a smaller result underflows to 0
F32MinExp == -149

\* F.softplus(x, beta=1, threshold=20) returns x above the threshold
SoftplusThreshold == 20

\* torch.exp(x) in float32
ExpF32(x) ==
    LET e == (x * Log2ENum) \div Log2EDen
    IN  IF e < F32MinExp THEN Zero ELSE Positive(e)

\* torch.log1p(t) of t >= 0: 0 for 0; of the size of t up to 1, then at most 1
\* binary digit per doubling
Log1p(t) ==
    IF t.zero THEN Zero
    ELSE IF t.exp < 0 THEN Positive(t.exp)
    ELSE Positive(FloorLog2(t.exp + 1) - 1)

\* F.softplus(x) = x above the threshold, log1p(exp(x)) up to it
softplus(x) ==
    IF x > SoftplusThreshold THEN Positive(FloorLog2(x))
    ELSE IF x >= 1 THEN Positive(FloorLog2(x))
    ELSE Log1p(ExpF32(x))

\* 2.0 + s in float32: the spacing of floats at 2 is 2^(2 - F32Digits), and
\* a positive s of less than half of it is rounded away
TwoPlus(s) == [above_two |-> ~s.zero /\ s.exp >= 1 - F32Digits]

\* metrics.py:7  _student_t_map: the scale and the degrees of freedom
_student_t_map(mu, sigma, nu) ==
    [mu |-> mu, sigma |-> softplus(sigma), nu |-> TwoPlus(softplus(nu))]

\* metrics.py:12  student_t_loss on one element (mu, sigma, nu) and its target:
\* with a scale of 0, (y - mu) / sigma is inf or NaN and torch.log(sigma) is
\* -inf, and the mean log-likelihood is NaN
student_t_loss(outs, y) ==
    LET m == _student_t_map(outs.mu, outs.sigma, outs.nu)
    IN  IF m.sigma.zero THEN Ok(NaN) ELSE Opaque

\* metrics.py:29  gaussian_ll_loss on one element (mu, sigma) and its target
gaussian_ll_loss(outs, y) ==
    LET sigma == softplus(outs.sigma)
    IN  IF sigma.zero THEN Ok(NaN) ELSE Opaque

RawVals == (0 - MaxRaw)..(SoftplusThreshold + 1)

LikelihoodInputs ==
    {[outs |-> [mu |-> 0, sigma |-> s, nu |-> n], y |-> y] :
        s \in RawVals, n \in RawVals, y \in 0..1}

InitLikelihood ==
    /\ pc = "loaded"
    /\ Loaded
    /\ fn = "none"
    /\ args \in LikelihoodInputs
    /\ ret = NoCall
    /\ calls = <<>>
    /\ TrainerIdle

CallStudentT ==
    /\ pc = "loaded"
    /\ fn' = "student_t_loss"
    /\ ret' = student_t_loss(args.outs, args.y)
    /\ pc' = "called"
    /\ UNCHANGED <<trainer, calls, output_metric_fns, loss_metric_fns, metric_fns, segmentation, args>>

CallGaussianLl ==
    /\ pc = "loaded"
    /\ fn' = "gaussian_ll_loss"
    /\ ret' = gaussian_ll_loss(args.outs, args.y)
    /\ pc' = "called"
    /\ UNCHANGED <<trainer, calls, output_metric_fns, loss_metric_fns, metric_fns, segmentation, args>>

NextLikelihood == CallStudentT \/ CallGaussianLl

SpecLikelihood == InitLikelihood /\ [][NextLikelihood]_vars

(***************************************************************************)
(* Claims about the shape policy of the regression losses (SpecRegress).   *)
(***************************************************************************)
LowerRankTarget ==
    /\ pc = "called" /\ fn \in {"mse", "mae", "forecast_rmse"}
    /\ Rank(args.y) = Rank(args.outs) - 1

\* C11: for mse, mae and forecast_rmse, with a target of one dimension fewer
\* than the output, an output whose trailing dimension is not 1 is refused with
\* an assertion error, and a call that returns has compared the output without
\* its trailing size-1 axis: no output with a wider trailing axis is broadcast.
C11_TrailingAxisDroppedOrAsserted ==
    LowerRankTarget =>
        /\ Last(args.outs.shape) # 1 => ret = Raise("AssertionError")
        /\ (Returned(ret) /\ args.len_batch = None) =>
              /\ Last(args.outs.shape) = 1
              /\ fn # "forecast_rmse" =>
                    ret = MeanLoss(Compared(args.outs, args.y), args.y, fn = "mse")

\* the part of C11 the code meets: mse and mae
C11_HoldsOfMseAndMae ==
    (LowerRankTarget /\ fn # "forecast_rmse") =>
        /\ Last(args.outs.shape) # 1 => ret = Raise("AssertionError")
        /\ (Returned(ret) /\ args.len_batch = None) =>
              /\ Last(args.outs.shape) = 1
              /\ ret = MeanLoss(Compared(args.outs, args.y), args.y, fn = "mse")

\* forecast_rmse never asserts: it broadcasts the lower-rank target, or fails
\* in the broadcast
C11_ForecastRmseNeverAsserts ==
    (LowerRankTarget /\ fn = "forecast_rmse") =>
        /\ ret.exc # "AssertionError"
        /\ Broadcastable(args.outs.shape, args.y.shape) => Returned(ret)

(***************************************************************************)
(* Claims about the loss-dependent metrics (SpecLoss).                     *)
(***************************************************************************)
\* the value of the injected function on the caller's (x, y)
InjectedValue == LossFnValue(args.loss_fn, args.x, args.y)

\* C12: loss, bpb and ppl invoke the injected function exactly once, on the
\* caller's (x, y) as given, and return f(x, y), f(x, y) / ln 2 and
\* exp(f(x, y)); the keys loss and eval_loss are the same pass-through function.
C12_LossMetrics ==
    /\ ModuleLoaded =>
          /\ metric_fns["loss"] = Fn("loss")
          /\ metric_fns["eval_loss"] = metric_fns["loss"]
    /\ pc = "called" =>
          /\ calls = <<[f |-> args.loss_fn, x |-> args.x, y |-> args.y]>>
          /\ Returned(InjectedValue) =>
                /\ args.key \in {"loss", "eval_loss"} => ret = InjectedValue
                /\ args.key = "bpb" =>
                      /\ Returned(ret)
                      /\ MulLn2(ret.val) = InjectedValue.val
                /\ args.key = "ppl" => ret = Ok(Exp(InjectedValue.val))
          /\ ~Returned(InjectedValue) => ret = InjectedValue

\* bpb of a loss of 4 nats
C12_Witness ==
    /\ pc = "called" /\ args.key = "bpb" /\ fn = "bpb"
    /\ InjectedValue = Ok(<<4, 1>>)
    /\ ret = Ok(<<40000, 6931>>)
    /\ Len(calls) = 1

(***************************************************************************)
(* Claims about the effects of a call (SpecFrame).                         *)
(***************************************************************************)
\* C13: no call of a metric changes the caller's output tensor, target tensor
\* or length vector, or the registry mappings, and the same metric called
\* again on the same inputs returns the same value.
C13_NoMutationNoState ==
    [][/\ args'.x = args.x /\ args'.y = args.y /\ args'.len_batch = args.len_batch
       /\ UNCHANGED <<output_metric_fns, loss_metric_fns, metric_fns>>
       /\ (pc = "called" /\ pc' = "called_twice") => ret' = ret]_vars

\* mse called twice on a batch whose mask was written for a length vector
C13_Witness ==
    /\ pc = "called_twice" /\ fn = "mse"
    /\ args.len_batch # None
    /\ Rank(args.x) = 3 /\ Rank(args.y) = 3
    /\ \E i \in 1..Len(args.len_batch) : args.len_batch[i] > 0
    /\ Returned(ret) /\ ret.val[1] > 0

\* specificity_multilabel called twice on a batch with a label that has no
\* negatives, whose ratio was zeroed in place
C13_WitnessZeroed ==
    /\ pc = "called_twice" /\ fn = "specificity_multilabel"
    /\ Rank(args.y) = 2 /\ args.y.shape[2] = 2
    /\ \E j \in 1..2 : \A i \in 1..args.y.shape[1] : args.y.data[(i - 1) * 2 + j] = 1
    /\ Returned(ret)

(***************************************************************************)
(* Claims about the likelihood losses (SpecLikelihood).                    *)
(***************************************************************************)
LikelihoodCall == pc = "called" /\ fn \in {"student_t_loss", "gaussian_ll_loss"}

ScaleUsed == softplus(args.outs.sigma)

DofUsed == TwoPlus(softplus(args.outs.nu))

\* C14: for every finite raw input, the scale used by student_t_loss and
\* gaussian_ll_loss is strictly greater than 0 and the degrees of freedom used
\* by student_t_loss are strictly greater than 2, so that no loss divides by a
\* scale of 0 or takes the log of a scale of 0.
C14_ScalePositiveDofAboveTwo ==
    LikelihoodCall =>
        /\ ~ScaleUsed.zero
        /\ fn = "student_t_loss" => DofUsed.above_two
        /\ ret = Opaque

\* what the code meets: the scale is positive for a raw scale of -103 or more,
\* the degrees of freedom are above 2 for a raw value of -15 or more
C14_HoldsAboveUnderflow ==
    LikelihoodCall =>
        /\ args.outs.sigma >= -103 => (~ScaleUsed.zero /\ ret = Opaque)
        /\ args.outs.nu >= -15 => DofUsed.above_two

\* below: a scale of exactly 0 and a NaN loss, degrees of freedom of exactly 2
C14_UnderflowsBelow ==
    LikelihoodCall =>
        /\ args.outs.sigma <= -104 => (ScaleUsed = Zero /\ ret = Ok(NaN))
        /\ args.outs.nu <= -16 => ~DofUsed.above_two

(***************************************************************************)
(* Claims about the binary confusion-matrix metrics (SpecConfusion).       *)
(***************************************************************************)
BinaryCall ==
    pc = "called" /\ fn \in {"recall_binary", "precision_binary", "specificity_binary"}

\* the ratio over the whole flat batch, a logit >= 0 predicting positive; NaN
\* (0/0) where the denominator counts nothing
FlatBatchRatio ==
    CASE fn = "recall_binary" -> Frac(TP(Elements), TP(Elements) + FN(Elements))
      [] fn = "precision_binary" -> Frac(TP(Elements), TP(Elements) + FP(Elements))
      [] fn = "specificity_binary" -> Frac(TN(Elements), TN(Elements) + FP(Elements))

FlatBatchDenominator ==
    CASE fn = "recall_binary" -> TP(Elements) + FN(Elements)
      [] fn = "precision_binary" -> TP(Elements) + FP(Elements)
      [] fn = "specificity_binary" -> TN(Elements) + FP(Elements)

\* C15: recall_binary, precision_binary and specificity_binary predict positive
\* exactly when logit >= 0, take their counts over the whole flat batch, and
\* return NaN, without raising, when the denominator is zero.
C15_BinaryRatiosOverFlatBatch ==
    BinaryCall =>
        /\ ret = Ok(FlatBatchRatio)
        /\ FlatBatchDenominator = 0 <=> IsNaN(ret.val)

\* what the code meets: every batch but a one-column target against one-column
\* logits, where each prediction is counted against every target
C15_HoldsUnlessColumnTarget ==
    (BinaryCall /\ ~(Labels = 1 /\ Rank(args.y) = 2)) =>
        /\ ret = Ok(FlatBatchRatio)
        /\ FlatBatchDenominator = 0 <=> IsNaN(ret.val)

\* no call raises, and a call returns NaN when the flat batch has a zero denominator
C15_NaNNotRaised ==
    BinaryCall =>
        /\ Returned(ret)
        /\ FlatBatchDenominator = 0 => IsNaN(ret.val)


(***************************************************************************)
(* trainer_train.py: the script, one action per statement of the two-phase *)
(* loop, started up to MaxRuns times on one file system (SpecTrain).       *)
(***************************************************************************)
\* the metrics module is not imported by the training script
MetricsIdle ==
    /\ pc = "start"
    /\ output_metric_fns = EmptyDict
    /\ loss_metric_fns = EmptyDict
    /\ metric_fns = EmptyDict
    /\ segmentation = "untried"
    /\ fn = "none"
    /\ args = NoArgs
    /\ ret = NoCall
    /\ calls = <<>>

\* an entry of the log
Step(op, e, acc) == [op |-> op, epoch |-> e, acc |-> acc]

\* the contents of a text file
TextFile == [model |-> Unbound, acc |-> Unbound, epoch |-> Unbound]

\* the checkpoints that can lie at ./checkpoint/ckpt.pth before the first run
ForeignCheckpoints ==
    {[model |-> ForeignWeights, acc |-> Accuracy(c, MaxTotal), epoch |-> e] :
        c \in 0..MaxTotal, e \in 0..MaxEpochs}

\* no process yet; ./checkpoint/ckpt.pth is absent or was put there by hand
InitTrain ==
    /\ MetricsIdle
    /\ tpc = "exited"
    /\ cli = NoCli
    /\ best_acc = 0
    /\ start_epoch = 0
    /\ epoch = Unbound
    /\ val_acc = Unbound
    /\ model = S4Model
    /\ files \in {<<>>} \cup {torch_save(<<>>, resume_path, c) : c \in ForeignCheckpoints}
    /\ log = <<>>
    /\ exc = "none"
    /\ runs = 0

\* an uncaught exception ends the process
Crash(e) ==
    /\ tpc' = "crashed"
    /\ exc' = e

\* trainer_train.py:38-262  parse the command line, write the configuration,
\* initialise the globals and build the model
StartRun ==
    /\ tpc \in {"exited", "done", "crashed"}
    /\ runs < MaxRuns
    /\ \E a \in CommandLines :
        /\ cli' = a
        /\ files' = torch_save(files, output_directory(a) \o <<"/">> \o ConfigName, TextFile)
    /\ best_acc' = 0
    /\ start_epoch' = 0
    /\ epoch' = Unbound
    /\ val_acc' = Unbound
    /\ model' = S4Model
    /\ log' = <<Step("start", Unbound, 0)>>
    /\ exc' = "none"
    /\ runs' = runs + 1
    /\ tpc' = "resume"
    /\ UNCHANGED metrics

\* trainer_train.py:268-275
Resume ==
    /\ tpc = "resume"
    /\ IF ~cli.resume
       THEN /\ tpc' = "phase1"
            /\ UNCHANGED <<exc, model, best_acc, start_epoch, log>>
       ELSE IF ~isdir_checkpoint(files)
       THEN /\ Crash("AssertionError")
            /\ UNCHANGED <<model, best_acc, start_epoch, log>>
       ELSE IF resume_path \notin DOMAIN files
       THEN /\ Crash("FileNotFoundError")
            /\ UNCHANGED <<model, best_acc, start_epoch, log>>
       ELSE LET checkpoint == files[resume_path]
            IN  /\ model' = [model EXCEPT !.weights = checkpoint.model]
                /\ best_acc' = checkpoint.acc
                /\ start_epoch' = checkpoint.epoch
                /\ log' = Append(log, Step("resume", checkpoint.epoch, checkpoint.acc))
                /\ tpc' = "phase1"
                /\ UNCHANGED exc
    /\ UNCHANGED <<metrics, cli, epoch, val_acc, files, runs>>

\* for epoch in range(first, last): the first iteration, or the code after
\* the loop when the range is empty
EnterLoop(here, first, last, body, after) ==
    /\ tpc = here
    /\ IF first < last
       THEN epoch' = first /\ tpc' = body
       ELSE epoch' = epoch /\ tpc' = after
    /\ UNCHANGED <<metrics, cli, best_acc, start_epoch, val_acc, model, files, log, exc, runs>>

\* trainer_train.py:572-573
EnterPhase1 == EnterLoop("phase1", start_epoch, cli.epochs1, "describe1", "save")

\* trainer_train.py:667-668
EnterPhase2 == EnterLoop("phase2", cli.epochs1, cli.epochs2, "describe2", "final")

\* trainer_train.py:574-577, 669-672  the progress bar's description reads
\* val_acc in every epoch but epoch 0
Describe(here, there) ==
    /\ tpc = here
    /\ IF epoch = 0 \/ val_acc # Unbound
       THEN tpc' = there /\ exc' = exc
       ELSE Crash("NameError")
    /\ UNCHANGED <<metrics, cli, best_acc, start_epoch, epoch, val_acc, model, files, log, runs>>

Describe1 == Describe("describe1", "train1")

Describe2 == Describe("describe2", "train2")

\* trainer_train.py:578, 673  train(): one pass over the training data
Train(here, there) ==
    /\ tpc = here
    /\ model' = [model EXCEPT !.weights = model.weights + 1]
    /\ log' = Append(log, Step("train", epoch, Unbound))
    /\ tpc' = there
    /\ UNCHANGED <<metrics, cli, best_acc, start_epoch, epoch, val_acc, files, exc, runs>>

Train1 == Train("train1", "eval1")

Train2 == Train("train2", "eval2")

\* trainer_train.py:579, 674  val_acc = eval(epoch, valloader, checkpoint=True)
Eval(here, there) ==
    /\ tpc = here
    /\ \E total \in 1..MaxTotal : \E correct \in 0..total :
        LET r == eval(epoch, correct, total, TRUE, cli, model, best_acc, files)
        IN  /\ best_acc' = r.best_acc
            /\ files' = r.files
            /\ val_acc' = r.returned
            /\ log' = Append(log, Step("eval", epoch, Accuracy(correct, total)))
    /\ tpc' = there
    /\ UNCHANGED <<metrics, cli, start_epoch, epoch, model, exc, runs>>

Eval1 == Eval("eval1", "step1")

Eval2 == Eval("eval2", "step2")

\* trainer_train.py:581-582, 676-677  scheduler.step(), then the next
\* iteration of the loop or the code after it
SchedulerStep(here, last, body, after) ==
    /\ tpc = here
    /\ log' = Append(log, Step("scheduler.step", epoch, Unbound))
    /\ IF epoch + 1 < last
       THEN epoch' = epoch + 1 /\ tpc' = body
       ELSE epoch' = epoch /\ tpc' = after
    /\ UNCHANGED <<metrics, cli, best_acc, start_epoch, val_acc, model, files, exc, runs>>

SchedulerStep1 == SchedulerStep("step1", cli.epochs1, "describe1", "save")

SchedulerStep2 == SchedulerStep("step2", cli.epochs2, "describe2", "final")

\* trainer_train.py:586-612  save the phase-1 model and load it back
SaveModel ==
    /\ tpc = "save"
    /\ files' = torch_save(files, model_path(cli), StateDict(model))
    /\ model' = [model EXCEPT !.weights = files'[model_path(cli)].model]
    /\ log' = Append(log, Step("save", epoch, Unbound))
    /\ tpc' = "freeze"
    /\ UNCHANGED <<metrics, cli, best_acc, start_epoch, epoch, val_acc, exc, runs>>

\* trainer_train.py:616-641
Freeze ==
    /\ tpc = "freeze"
    /\ model' = [model EXCEPT !.frozen = TRUE]
    /\ log' = Append(log, Step("freeze", epoch, Unbound))
    /\ tpc' = "phase2"
    /\ UNCHANGED <<metrics, cli, best_acc, start_epoch, epoch, val_acc, files, exc, runs>>

\* trainer_train.py:680-713  save the final model and the metrics of the run
FinalSave ==
    /\ tpc = "final"
    /\ files' = torch_save(torch_save(torch_save(files,
                    final_model_path(cli), StateDict(model)),
                    metrics_path(cli, EvaluationName), TextFile),
                    metrics_path(cli, TrainingName), TextFile)
    /\ tpc' = "done"
    /\ UNCHANGED <<metrics, cli, best_acc, start_epoch, epoch, val_acc, model, log, exc, runs>>

NextTrain ==
    \/ StartRun
    \/ Resume
    \/ EnterPhase1
    \/ Describe1
    \/ Train1
    \/ Eval1
    \/ SchedulerStep1
    \/ SaveModel
    \/ Freeze
    \/ EnterPhase2
    \/ Describe2
    \/ Train2
    \/ Eval2
    \/ SchedulerStep2
    \/ FinalSave

SpecTrain == InitTrain /\ [][NextTrain]_vars


(***************************************************************************)
(* C16: the schedule of the two-phase loop (SpecTrain).                    *)
(***************************************************************************)
\* train(), eval(), scheduler.step() of the epochs from, ..., to - 1
RECURSIVE EpochSteps(_, _)
EpochSteps(from, to) ==
    IF from >= to THEN <<>>
    ELSE <<[op |-> "train", epoch |-> from], [op |-> "eval", epoch |-> from],
           [op |-> "scheduler.step", epoch |-> from]>> \o EpochSteps(from + 1, to)

\* the schedule C16 describes
ExpectedSchedule ==
    EpochSteps(start_epoch, cli.epochs1)
        \o <<[op |-> "save", epoch |-> Unbound], [op |-> "freeze", epoch |-> Unbound]>>
        \o EpochSteps(cli.epochs1, cli.epochs2)

\* the steps the script has taken since the resume block, without the
\* accuracies
RECURSIVE Schedule(_)
Schedule(l) ==
    IF l = <<>> THEN <<>>
    ELSE LET s == Head(l)
         IN  (IF s.op \in {"start", "resume"} THEN <<>>
              ELSE IF s.op \in {"save", "freeze"} THEN <<[op |-> s.op, epoch |-> Unbound]>>
              ELSE <<[op |-> s.op, epoch |-> s.epoch]>>) \o Schedule(Tail(l))

\* the script got past the resume block and then ended
LoopEnded == tpc = "done" \/ (tpc = "crashed" /\ exc = "NameError")

\* C16 as stated: whenever 0 <= start_epoch < epochs1 <= epochs2, the script
\* runs to its end without reading an unassigned variable, having taken
\* train, eval, scheduler.step once per epoch from start_epoch to epochs2 - 1
\* in order, with the phase-1 save and the freezing once between the phases.
\* Refuted: after --resume with start_epoch > 0 the first description reads
\* val_acc before any eval() has assigned it.
C16_EveryEpochOnceInOrder ==
    (LoopEnded /\ 0 <= start_epoch /\ start_epoch < cli.epochs1 /\ cli.epochs1 <= cli.epochs2)
        => /\ tpc = "done"
           /\ Schedule(log) = ExpectedSchedule

\* C16, the part that holds: the schedule is the stated one when the script
\* starts from epoch 0.
C16_HoldsFromEpochZero ==
    (LoopEnded /\ start_epoch = 0 /\ 0 < cli.epochs1 /\ cli.epochs1 <= cli.epochs2)
        => /\ tpc = "done"
           /\ Schedule(log) = ExpectedSchedule

\* C16, the failure: a resumed script with 0 < start_epoch < epochs1 ends
\* with a NameError before its first train().
C16_NameErrorAfterResume ==
    (LoopEnded /\ 0 < start_epoch /\ start_epoch < cli.epochs1 /\ cli.epochs1 <= cli.epochs2)
        => /\ exc = "NameError"
           /\ Schedule(log) = <<>>

\* C16: a script starting from epoch 0 has run both phases to the end.
C16_RanBothPhases ==
    /\ tpc = "done"
    /\ start_epoch = 0
    /\ cli.epochs1 = 1
    /\ cli.epochs2 = MaxEpochs
    /\ Len(Schedule(log)) = 3 * MaxEpochs + 2

\* C16: a resumed script with 0 < start_epoch < epochs1 has ended.
C16_ResumedEnded ==
    /\ LoopEnded
    /\ cli.resume
    /\ 0 < start_epoch
    /\ start_epoch < cli.epochs1


(***************************************************************************)
(* trainer_train.py: eval() called any number of times in one process,     *)
(* with and without checkpoint (SpecEval).                                 *)
(***************************************************************************)
\* the process has parsed its command line and passed the resume block:
\* best_acc is 0 or the accuracy of the checkpoint resumed from
InitEval ==
    /\ MetricsIdle
    /\ tpc = "eval"
    /\ cli \in {a \in CommandLines : ~a.resume /\ a.epochs1 = 0 /\ a.epochs2 = 0}
    /\ best_acc \in {0, Accuracy(1, MaxTotal)}
    /\ start_epoch = 0
    /\ epoch = Unbound
    /\ val_acc = Unbound
    /\ model = S4Model
    /\ files = <<>>
    /\ log = <<Step("start", Unbound, best_acc)>>
    /\ exc = "none"
    /\ runs = 1

\* trainer_train.py:450-568  val_acc = eval(e, loader, checkpoint), for the
\* epoch of the previous call or a later one
CallEval(checkpoint, op) ==
    /\ tpc = "eval"
    /\ Len(log) <= MaxCalls
    /\ \E e \in (IF epoch = Unbound THEN 0 ELSE epoch)..MaxEpochs : \E total \in 1..MaxTotal : \E correct \in 0..total :
        LET r == eval(e, correct, total, checkpoint, cli, model, best_acc, files)
        IN  /\ epoch' = e
            /\ best_acc' = r.best_acc
            /\ files' = r.files
            /\ val_acc' = r.returned
            /\ log' = Append(log, Step(op, e, Accuracy(correct, total)))
    /\ UNCHANGED <<metrics, tpc, cli, start_epoch, model, exc, runs>>

\* eval(epoch, valloader, checkpoint=True)
CallEvalCheckpoint == CallEval(TRUE, "eval")

\* eval(epoch, testloader)
CallEvalNoCheckpoint == CallEval(FALSE, "eval_no_checkpoint")

NextEval ==
    \/ CallEvalCheckpoint
    \/ CallEvalNoCheckpoint

SpecEval == InitEval /\ [][NextEval]_vars

(***************************************************************************)
(* C17: best_acc and the checkpoint file across calls of eval().           *)
(***************************************************************************)
\* the largest number of a non-empty set
MaxOf(S) == CHOOSE m \in S : \A n \in S : n <= m

\* the accuracy best_acc started from and those of the checkpoint=True calls
AccuraciesSeen(l) == {l[i].acc : i \in {j \in 1..Len(l) : l[j].op \in {"start", "eval"}}}

\* C17: in every call of eval(), best_acc does not decrease; the file system
\* changes exactly when the call has checkpoint=True and its accuracy is
\* strictly greater than best_acc on entry, and then only the checkpoint
\* file changes and its state records that accuracy and that epoch; after a
\* checkpoint=True call best_acc is the maximum of the accuracies seen so far
\* (the value it started from included); a checkpoint=False call writes
\* nothing and leaves best_acc unchanged.
C17_BestAccAndCheckpoint ==
    [][Len(log') = Len(log) + 1 =>
        LET call == log'[Len(log')]
            path == checkpoint_path(cli)
        IN  /\ best_acc' >= best_acc
            /\ (files' # files) <=> (call.op = "eval" /\ call.acc > best_acc)
            /\ (files' # files) =>
                /\ DOMAIN files' = DOMAIN files \cup {path}
                /\ \A p \in DOMAIN files : p # path => files'[p] = files[p]
                /\ files'[path].acc = call.acc
                /\ files'[path].epoch = call.epoch
                /\ files'[path].model = model.weights
            /\ best_acc' = MaxOf(AccuraciesSeen(log'))
            /\ call.op = "eval" => val_acc' = call.acc
            /\ call.op = "eval_no_checkpoint" => (files' = files /\ best_acc' = best_acc)]_vars

\* C17: a checkpoint=False call with an accuracy above best_acc, then a
\* checkpoint=True call that wrote, then one with the same accuracy at a
\* later epoch that did not.
C17_Witness ==
    /\ tpc = "eval"
    /\ Len(log) = 4
    /\ log[1].acc = 0
    /\ log[2].op = "eval_no_checkpoint" /\ log[2].acc = 100
    /\ log[3].op = "eval" /\ log[3].acc = 50 /\ log[3].epoch = 0
    /\ log[4].op = "eval" /\ log[4].acc = 50 /\ log[4].epoch = 1
    /\ best_acc = 50
    /\ files[checkpoint_path(cli)].epoch = 0


(***************************************************************************)
(* C18: the checkpoint written by eval() and the one --resume reads        *)
(* (SpecTrain).                                                            *)
(***************************************************************************)
\* the resume block of a run started with --resume has just been left
ResumeBlockLeft ==
    /\ cli.resume
    /\ \/ tpc = "phase1"
       \/ tpc = "crashed" /\ exc \in {"AssertionError", "FileNotFoundError"}

\* C18 as stated: when a run started with --resume leaves its resume block
\* and an earlier run's eval() has written a checkpoint for the same
\* file_name and n_layers, the path read is the path written and the run has
\* restored the weights, best_acc and start_epoch of that checkpoint.
\* Refuted: the resume block reads ./checkpoint/ckpt.pth, while eval() writes
\* ./checkpoint/<file_name>/ckpt_<n_layers>.pth.
C18_ResumeRestoresWrittenCheckpoint ==
    (ResumeBlockLeft /\ checkpoint_path(cli) \in DOMAIN files)
        => LET saved == files[checkpoint_path(cli)]
           IN  /\ tpc = "phase1"
               /\ resume_path = checkpoint_path(cli)
               /\ model.weights = saved.model
               /\ best_acc = saved.acc
               /\ start_epoch = saved.epoch

\* C18, what the code does instead: the file the resume block reads is never
\* one the script wrote, whatever the command lines of the runs.
C18_ResumedFileNeverWritten ==
    /\ \A a \in CommandLines : checkpoint_path(a) # resume_path
    /\ resume_path \in DOMAIN files => files[resume_path] \in ForeignCheckpoints

\* C18, what the code does instead: a run started with --resume either ends
\* in its resume block or continues from the file at ./checkpoint/ckpt.pth.
C18_ResumeReadsFixedPath ==
    ResumeBlockLeft =>
        IF resume_path \in DOMAIN files
        THEN /\ tpc = "phase1"
             /\ model.weights = files[resume_path].model
             /\ best_acc = files[resume_path].acc
             /\ start_epoch = files[resume_path].epoch
        ELSE tpc = "crashed"

\* C18: a second run, started with --resume, has left its resume block with
\* a checkpoint of an earlier run on disk for its file_name and n_layers.
C18_SecondRunResumed ==
    /\ runs = MaxRuns
    /\ ResumeBlockLeft
    /\ checkpoint_path(cli) \in DOMAIN files

====
